---- MODULE Spec2Model ----
(***************************************************************************)
(* Three stand-alone checkers of the agent-skills repository:              *)
(*   quality-gate.py            (codexer/scripts)                AST based *)
(*   doc-structure-validator.py (documentation-authoring/scripts) markdown *)
(*   review-checklist.py        (code-quality/scripts)         regex based *)
(* A text is a sequence of one-character strings; a file is a sequence of  *)
(* lines.  A behaviour is one run of one checker's main().                 *)
(***************************************************************************)
EXTENDS Integers, Sequences, FiniteSets, TLC

(***************************************************************************)
(* Python built-ins used by the three scripts.                             *)
(***************************************************************************)
Lower == {"a", "b", "c", "d", "e", "f", "g", "h", "i", "j", "k", "l", "m",
          "n", "o", "p", "q", "r", "s", "t", "u", "v", "w", "x", "y", "z"}
Upper == {"A", "B", "C", "D", "E", "F", "G", "H", "I", "J", "K", "L", "M",
          "N", "O", "P", "Q", "R", "S", "T", "U", "V", "W", "X", "Y", "Z"}
Digit == {"0", "1", "2", "3", "4", "5", "6", "7", "8", "9"}
\* \w and \s of the re module, over the ASCII characters the model draws from
WordCh == Lower \cup Upper \cup Digit \cup {"_"}
SpaceCh == {" ", "\t", "\n", "\r", "\f"}

None == "None"

Max(a, b) == IF a >= b THEN a ELSE b

\* s[a:b] with 0 <= a, b: the characters at offsets a .. b-1
Slice(s, a, b) == IF b <= a THEN <<>> ELSE SubSeq(s, a + 1, IF b > Len(s) THEN Len(s) ELSE b)

\* s.startswith(p)
StartsWith(s, p) == Len(s) >= Len(p) /\ SubSeq(s, 1, Len(p)) = p

RECURSIVE LStrip(_)
LStrip(s) == IF s # <<>> /\ Head(s) \in SpaceCh THEN LStrip(Tail(s)) ELSE s

RECURSIVE RStrip(_)
RStrip(s) == IF s # <<>> /\ s[Len(s)] \in SpaceCh THEN RStrip(SubSeq(s, 1, Len(s) - 1)) ELSE s

\* str.strip()
Strip(s) == RStrip(LStrip(s))

\* "needle in s" for texts
Contains(s, needle) ==
    \E i \in 0..(Len(s) - Len(needle)) : SubSeq(s, i + 1, i + Len(needle)) = needle

RECURSIVE SeqSum(_)
SeqSum(ns) == IF ns = <<>> THEN 0 ELSE Head(ns) + SeqSum(Tail(ns))

\* the concatenation of the sequences ss[lo], ..., ss[hi], by halves
RECURSIVE FlattenRange(_, _, _)
FlattenRange(ss, lo, hi) ==
    IF lo > hi THEN <<>>
    ELSE IF lo = hi THEN ss[lo]
    ELSE LET mid == (lo + hi) \div 2
         IN  FlattenRange(ss, lo, mid) \o FlattenRange(ss, mid + 1, hi)

Flatten(ss) == FlattenRange(ss, 1, Len(ss))

\* sum(1 for x in xs if P(x))
CountIf(xs, P(_)) == Len(SelectSeq(xs, P))

(***************************************************************************)
(* Regular expressions as the scripts use them (re.compile / search /      *)
(* match / findall / finditer / sub).  A pattern is a tree; Ends gives the *)
(* end offsets of its matches from offset i in the order the backtracking  *)
(* matcher tries them, so the first one is the match Python reports.       *)
(***************************************************************************)
RSet(S) == [t |-> "set", s |-> S]
RNot(S) == [t |-> "nset", s |-> S]
RCat(rs) == [t |-> "cat", rs |-> rs]
RAlt(rs) == [t |-> "alt", rs |-> rs]
\* r{lo,hi}, r* and r+ (no upper limit), r?
RRep(r, lo, hi) == [t |-> "rep", r |-> r, lo |-> lo, hi |-> hi, unbounded |-> FALSE]
RStar(r) == [t |-> "rep", r |-> r, lo |-> 0, hi |-> 0, unbounded |-> TRUE]
RPlus(r) == [t |-> "rep", r |-> r, lo |-> 1, hi |-> 1, unbounded |-> TRUE]
ROpt(r) == RRep(r, 0, 1)
RBol == [t |-> "bol"]
RBolM == [t |-> "bolm"]
REol == [t |-> "eol"]
RWb == [t |-> "wb"]
RNla(r) == [t |-> "nla", r |-> r]
RNlb(r) == [t |-> "nlb", r |-> r]
RCh(c) == RSet({c})
RLit(str) == RCat([k \in 1..Len(str) |-> RCh(str[k])])
RAny == RNot({"\n"})
RW == RSet(WordCh)
RS == RSet(SpaceCh)

\* zs without the later copies of its members
Dedup(zs) ==
    IF Len(zs) <= 1 THEN zs
    ELSE
    LET firsts == SelectSeq([k \in 1..Len(zs) |-> k],
                            LAMBDA k : \A j \in 1..(k - 1) : zs[j] # zs[k])
    IN  [k \in 1..Len(firsts) |-> zs[firsts[k]]]

\* xs followed by the members of ys that are not yet in it
Merge(xs, ys) == Dedup(xs \o ys)

IsWordAt(s, off) == off >= 0 /\ off < Len(s) /\ s[off + 1] \in WordCh

RECURSIVE Ends(_, _, _)
RECURSIVE EndsCat(_, _, _, _)
RECURSIVE EndsAlt(_, _, _, _)
RECURSIVE EndsRep(_, _, _, _)
RECURSIVE EndsEach(_, _, _, _, _)
RECURSIVE StepRep(_, _, _, _, _)

Ends(r, s, i) ==
    CASE r.t = "set" -> IF i < Len(s) /\ s[i + 1] \in r.s THEN <<i + 1>> ELSE <<>>
      [] r.t = "nset" -> IF i < Len(s) /\ s[i + 1] \notin r.s THEN <<i + 1>> ELSE <<>>
      [] r.t = "cat" -> EndsCat(r.rs, 1, s, i)
      [] r.t = "alt" -> EndsAlt(r.rs, 1, s, i)
      [] r.t = "rep" -> EndsRep(r, 0, s, i)
      [] r.t = "bol" -> IF i = 0 THEN <<i>> ELSE <<>>
      [] r.t = "bolm" -> IF i = 0 \/ s[i] = "\n" THEN <<i>> ELSE <<>>
      [] r.t = "eol" -> IF i = Len(s) \/ (i = Len(s) - 1 /\ s[i + 1] = "\n") THEN <<i>> ELSE <<>>
      [] r.t = "wb" -> IF IsWordAt(s, i - 1) # IsWordAt(s, i) THEN <<i>> ELSE <<>>
      [] r.t = "nla" -> IF Ends(r.r, s, i) = <<>> THEN <<i>> ELSE <<>>
      [] r.t = "nlb" -> IF i >= 1 /\ Ends(r.r, s, i - 1) # <<>> THEN <<>> ELSE <<i>>

EndsCat(rs, k, s, i) ==
    IF k > Len(rs) THEN <<i>>
    ELSE EndsEach(Ends(rs[k], s, i), rs, k + 1, s, "cat")

EndsAlt(rs, k, s, i) ==
    Dedup(Flatten([j \in 1..(Len(rs) - k + 1) |-> Ends(rs[k + j - 1], s, i)]))

\* the length of the longest run of characters from offset i on that the
\* one-character pattern c accepts
RunOf(c, s, i) ==
    CHOOSE m \in 0..(Len(s) - i) :
        /\ \A j \in 1..m : (s[i + j] \in c.s) <=> (c.t = "set")
        /\ m = Len(s) - i \/ ((s[i + m + 1] \in c.s) <=> (c.t # "set"))

\* greedy: one more repetition is tried before stopping here; a repeated
\* one-character pattern gives the ends from the longest run down to lo
EndsRep(r, n, s, i) ==
    IF n = 0 /\ r.r.t \in {"set", "nset"}
    THEN LET top == IF r.unbounded \/ RunOf(r.r, s, i) < r.hi
                    THEN RunOf(r.r, s, i) ELSE r.hi
         IN  [k \in 1..(top - r.lo + 1) |-> i + top - k + 1]
    ELSE StepRep(IF r.unbounded \/ n < r.hi
                 THEN SelectSeq(Ends(r.r, s, i), LAMBDA e : e > i) ELSE <<>>,
                 r, n, s, i)

\* the ends of a repetition from offset i, where es are the ends of one more
\* repetition from there; all of them lie after i, so i comes last
StepRep(es, r, n, s, i) ==
    (IF es = <<>> THEN <<>>
     ELSE IF Len(es) = 1 THEN EndsRep(r, n + 1, s, es[1])
     ELSE EndsEach(es, r, n + 1, s, "rep"))
    \o (IF n >= r.lo THEN <<i>> ELSE <<>>)

\* the continuation (rest of a concatenation, next repetition) from each end
EndsEach(es, x, k, s, how) ==
    IF es = <<>> THEN <<>>
    ELSE IF Len(es) = 1
    THEN (IF how = "cat" THEN EndsCat(x, k, s, es[1]) ELSE EndsRep(x, k, s, es[1]))
    ELSE LET from == [e \in 0..Len(s) |->
                        IF how = "cat" THEN EndsCat(x, k, s, e) ELSE EndsRep(x, k, s, e)]
         IN  Dedup(Flatten([j \in 1..Len(es) |-> from[es[j]]]))

\* pattern.match(s): a match at offset 0
ReMatch(r, s) == Ends(r, s, 0) # <<>>

\* pattern.search(s): a match at some offset
ReSearch(r, s) == \E i \in 0..Len(s) : Ends(r, s, i) # <<>>

\* the leftmost non-overlapping matches from offset pos on, as records of
\* start and end offset, read off ends, the table of Ends by offset; the
\* scan resumes at the end of a match (one further after an empty match)
RECURSIVE FindIterFrom(_, _, _)
FindIterFrom(ends, n, pos) ==
    LET starts == {i \in pos..n : ends[i] # <<>>}
    IN  IF starts = {} THEN <<>>
        ELSE LET st == CHOOSE i \in starts : \A j \in starts : i <= j
                 en == Head(ends[st])
             IN  <<[start |-> st, end |-> en]>>
                 \o FindIterFrom(ends, n, IF en = st THEN st + 1 ELSE en)

\* pattern.finditer(s)
FindIter(r, s) == FindIterFrom([i \in 0..Len(s) |-> Ends(r, s, i)], Len(s), 0)

\* the first member of es, or -1 when there is none
FirstOf(es) == IF es = <<>> THEN -1 ELSE Head(es)

\* the first end e of head from offset i after which tail matches, or -1
FirstEndWith(head, tail, s, i) ==
    FirstOf(SelectSeq(Ends(head, s, i), LAMBDA e : Ends(tail, s, e) # <<>>))

\* pattern.sub(repl, s) for a replacement text without group references
RECURSIVE SubFrom(_, _, _, _)
SubFrom(ms, repl, s, pos) ==
    IF ms = <<>> THEN Slice(s, pos, Len(s))
    ELSE Slice(s, pos, Head(ms).start) \o repl \o SubFrom(Tail(ms), repl, s, Head(ms).end)

ReSub(r, repl, s) == SubFrom(FindIter(r, s), repl, s, 0)

(***************************************************************************)
(* quality-gate.py.  ast.parse is Python's; the model starts from the tree *)
(* it returns.  A node is a record with the ast fields the checks read:    *)
(*   Import(lineno, names), ImportFrom(lineno, module, level),            *)
(*   FunctionDef / AsyncFunctionDef(lineno, end_lineno, name, args,        *)
(*   returns, docstring, body), ClassDef(lineno, name, docstring, body),   *)
(*   Assign(lineno, targets), Module(docstring, body).                     *)
(* Identifiers are texts; a dotted module name is the sequence of its      *)
(* components, so name.split(".")[0] is its first component.               *)
(***************************************************************************)
STDLIB_TOP_LEVEL == {
    "abc", "aifc", "argparse", "array", "ast", "asynchat", "asyncio",
    "asyncore", "atexit", "audioop", "base64", "bdb", "binascii",
    "binhex", "bisect", "builtins", "bz2", "calendar", "cgi", "cgitb",
    "chunk", "cmath", "cmd", "code", "codecs", "codeop", "collections",
    "colorsys", "compileall", "concurrent", "configparser",
    "contextlib", "contextvars", "copy", "copyreg", "cProfile", "crypt",
    "csv", "ctypes", "curses", "dataclasses", "datetime", "dbm",
    "decimal", "difflib", "dis", "distutils", "doctest", "email",
    "encodings", "enum", "errno", "faulthandler", "fcntl", "filecmp",
    "fileinput", "fnmatch", "formatter", "fractions", "ftplib",
    "functools", "gc", "getopt", "getpass", "gettext", "glob", "grp",
    "gzip", "hashlib", "heapq", "hmac", "html", "http", "idlelib",
    "imaplib", "imghdr", "imp", "importlib", "inspect", "io",
    "ipaddress", "itertools", "json", "keyword", "lib2to3", "linecache",
    "locale", "logging", "lzma", "mailbox", "mailcap", "marshal",
    "math", "mimetypes", "mmap", "modulefinder", "multiprocessing",
    "netrc", "nis", "nntplib", "numbers", "operator", "optparse", "os",
    "ossaudiodev", "parser", "pathlib", "pdb", "pickle", "pickletools",
    "pipes", "pkgutil", "platform", "plistlib", "poplib", "posix",
    "posixpath", "pprint", "profile", "pstats", "pty", "pwd",
    "py_compile", "pyclbr", "pydoc", "queue", "quopri", "random", "re",
    "readline", "reprlib", "resource", "rlcompleter", "runpy", "sched",
    "secrets", "select", "selectors", "shelve", "shlex", "shutil",
    "signal", "site", "smtpd", "smtplib", "sndhdr", "socket",
    "socketserver", "spwd", "sqlite3", "sre_compile", "sre_constants",
    "sre_parse", "ssl", "stat", "statistics", "string", "stringprep",
    "struct", "subprocess", "sunau", "symtable", "sys", "sysconfig",
    "syslog", "tabnanny", "tarfile", "telnetlib", "tempfile", "termios",
    "test", "textwrap", "threading", "time", "timeit", "tkinter",
    "token", "tokenize", "tomllib", "trace", "traceback", "tracemalloc",
    "tty", "turtle", "turtledemo", "types", "typing", "unicodedata",
    "unittest", "urllib", "uu", "uuid", "venv", "warnings", "wave",
    "weakref", "webbrowser", "winreg", "winsound", "wsgiref", "xdrlib",
    "xml", "xmlrpc", "zipapp", "zipfile", "zipimport", "zlib", "_thread"}

MAX_FUNCTION_LINES == 50

\* keyword.iskeyword
iskeyword(name) == name \in {
    <<"F","a","l","s","e">>, <<"N","o","n","e">>, <<"T","r","u","e">>,
    <<"a","n","d">>, <<"a","s">>, <<"a","s","s","e","r","t">>,
    <<"a","s","y","n","c">>, <<"a","w","a","i","t">>,
    <<"b","r","e","a","k">>, <<"c","l","a","s","s">>,
    <<"c","o","n","t","i","n","u","e">>, <<"d","e","f">>, <<"d","e","l">>,
    <<"e","l","i","f">>, <<"e","l","s","e">>, <<"e","x","c","e","p","t">>,
    <<"f","i","n","a","l","l","y">>, <<"f","o","r">>, <<"f","r","o","m">>,
    <<"g","l","o","b","a","l">>, <<"i","f">>, <<"i","m","p","o","r","t">>,
    <<"i","n">>, <<"i","s">>, <<"l","a","m","b","d","a">>,
    <<"n","o","n","l","o","c","a","l">>, <<"n","o","t">>, <<"o","r">>,
    <<"p","a","s","s">>, <<"r","a","i","s","e">>,
    <<"r","e","t","u","r","n">>, <<"t","r","y">>, <<"w","h","i","l","e">>,
    <<"w","i","t","h">>, <<"y","i","e","l","d">>}

\* dataclass Issue of quality-gate
GateIssue(file, line, category, message, severity) ==
    [file |-> file, line |-> line, category |-> category,
     message |-> message, severity |-> severity]

\* Report()
NewReport == [issues |-> <<>>, files_checked |-> 0,
              functions_checked |-> 0, classes_checked |-> 0]

\* Report.passed with the fault "any issue fails the run"
passed_NoIssue(report) == report.issues = <<>>

\* Report.passed
passed(report) ==
    ~ \E k \in 1..Len(report.issues) : report.issues[k].severity = "error"

\* Report.add
add(report, file, line, category, message, severity) ==
    [report EXCEPT !.issues = Append(@, GateIssue(file, line, category, message, severity))]

IsFunction(node) == node.type \in {"FunctionDef", "AsyncFunctionDef"}

\* ast.iter_child_nodes, restricted to the statements the checks look at
iter_child_nodes(node) ==
    IF node.type \in {"Module", "ClassDef", "FunctionDef", "AsyncFunctionDef"}
    THEN node.body ELSE <<>>

\* ast.walk: breadth first from the module
RECURSIVE walk(_)
walk(todo) ==
    IF todo = <<>> THEN <<>>
    ELSE <<Head(todo)>> \o walk(Tail(todo) \o iter_child_nodes(Head(todo)))

N_init == <<"_", "_", "i", "n", "i", "t", "_", "_">>
N_self == <<"s", "e", "l", "f">>
N_cls == <<"c", "l", "s">>

\* the private-name exemption shared by check_type_hints and check_docstrings
IsExempt(name) == StartsWith(name, <<"_">>) /\ name # N_init

RECURSIVE TypeHintArgs(_, _, _, _)
TypeHintArgs(args, node, filepath, report) ==
    IF args = <<>> THEN report
    ELSE LET arg == Head(args)
             r1 == IF arg.arg = N_self \/ arg.arg = N_cls THEN report
                   ELSE IF ~arg.annotation
                   THEN add(report, filepath, node.lineno, "type-hints",
                            <<"Parameter missing type hint", arg.arg, node.name>>, "error")
                   ELSE report
         IN  TypeHintArgs(Tail(args), node, filepath, r1)

TypeHintsOfFunction(node, filepath, report) ==
    LET r1 == [report EXCEPT !.functions_checked = @ + 1]
        r2 == TypeHintArgs(node.args, node, filepath, r1)
    IN  IF node.name # N_init /\ ~node.returns
        THEN add(r2, filepath, node.lineno, "type-hints",
                 <<"Function missing return type annotation", node.name>>, "error")
        ELSE r2

RECURSIVE TypeHintsNodes(_, _, _)
TypeHintsNodes(nodes, filepath, report) ==
    IF nodes = <<>> THEN report
    ELSE LET node == Head(nodes)
             r1 == IF ~IsFunction(node) THEN report
                   ELSE IF IsExempt(node.name) THEN report
                   ELSE TypeHintsOfFunction(node, filepath, report)
         IN  TypeHintsNodes(Tail(nodes), filepath, r1)

check_type_hints(tree, filepath, report) == TypeHintsNodes(walk(<<tree>>), filepath, report)

DocstringOfNode(node, filepath, report) ==
    LET r1 == IF node.type = "ClassDef"
              THEN LET c == [report EXCEPT !.classes_checked = @ + 1]
                   IN  IF ~node.docstring
                       THEN add(c, filepath, node.lineno, "docstrings",
                                <<"Class missing docstring", node.name>>, "warning")
                       ELSE c
              ELSE report
    IN  IF IsFunction(node)
        THEN IF IsExempt(node.name) THEN r1
             ELSE IF ~node.docstring
             THEN add(r1, filepath, node.lineno, "docstrings",
                      <<"Function missing docstring", node.name>>, "warning")
             ELSE r1
        ELSE r1

RECURSIVE DocstringsNodes(_, _, _)
DocstringsNodes(nodes, filepath, report) ==
    IF nodes = <<>> THEN report
    ELSE DocstringsNodes(Tail(nodes), filepath, DocstringOfNode(Head(nodes), filepath, report))

check_docstrings(tree, filepath, report) ==
    LET r1 == IF ~tree.docstring
              THEN add(report, filepath, 1, "docstrings", <<"Module missing docstring">>, "warning")
              ELSE report
    IN  DocstringsNodes(walk(<<tree>>), filepath, r1)

\* node.module of "from . import x" (None), and a line number that is None
NoModule == <<>>
NoLineno == 0 - 1

\* the group of "import a.b" / "from a.b import c" by its top-level name
GroupOfTop(top) == IF top \in STDLIB_TOP_LEVEL THEN "stdlib" ELSE "third-party"

RECURSIVE ImportAliases(_, _)
ImportAliases(names, lineno) ==
    IF names = <<>> THEN <<>>
    ELSE <<[lineno |-> lineno, group |-> GroupOfTop(Head(Head(names))), name |-> Head(names)]>>
         \o ImportAliases(Tail(names), lineno)

\* the records one top-level statement adds to the list "imports"
ImportRecordsOf(node) ==
    IF node.type = "Import" THEN ImportAliases(node.names, node.lineno)
    ELSE IF node.type = "ImportFrom"
    THEN IF node.module = NoModule THEN <<>>
         ELSE <<[lineno |-> node.lineno,
                 group |-> IF node.level > 0 THEN "local" ELSE GroupOfTop(Head(node.module)),
                 name |-> node.module]>>
    ELSE <<>>

RECURSIVE CollectImports(_)
CollectImports(nodes) ==
    IF nodes = <<>> THEN <<>>
    ELSE ImportRecordsOf(Head(nodes)) \o CollectImports(Tail(nodes))

\* group_order with the ranks of stdlib and third-party exchanged
group_order_Swapped(group) ==
    CASE group = "stdlib" -> 1 [] group = "third-party" -> 0 [] group = "local" -> 2

\* group_order = {"stdlib": 0, "third-party": 1, "local": 2}
group_order(group) ==
    CASE group = "stdlib" -> 0 [] group = "third-party" -> 1 [] group = "local" -> 2

\* the scan loop of check_import_organization
RECURSIVE ImportScan(_, _, _, _)
ImportScan(imports, prev_group_rank, filepath, report) ==
    IF imports = <<>> THEN report
    ELSE LET imp == Head(imports)
             rank == group_order(imp.group)
             r1 == IF rank < prev_group_rank
                   THEN add(report, filepath, imp.lineno, "imports",
                            <<"Import appears after a later group", imp.name, imp.group>>,
                            "warning")
                   ELSE report
         IN  ImportScan(Tail(imports), rank, filepath, r1)

check_import_organization(tree, filepath, report) ==
    LET imports == CollectImports(iter_child_nodes(tree))
    IN  IF imports = <<>> THEN report
        ELSE ImportScan(imports, -1, filepath, report)

FunctionLengthOfNode(node, filepath, report) ==
    IF ~IsFunction(node) THEN report
    ELSE IF node.end_lineno = NoLineno THEN report
    ELSE LET length == node.end_lineno - node.lineno + 1
         IN  IF length > MAX_FUNCTION_LINES
             THEN add(report, filepath, node.lineno, "function-length",
                      <<"Function is too long", node.name, length, MAX_FUNCTION_LINES>>, "error")
             ELSE report

RECURSIVE FunctionLengthNodes(_, _, _)
FunctionLengthNodes(nodes, filepath, report) ==
    IF nodes = <<>> THEN report
    ELSE FunctionLengthNodes(Tail(nodes), filepath,
                             FunctionLengthOfNode(Head(nodes), filepath, report))

check_function_length(tree, filepath, report) ==
    FunctionLengthNodes(walk(<<tree>>), filepath, report)

\* SNAKE_CASE with the fault "at least two characters after the underscores"
SNAKE_CASE_TwoChars ==
    RCat(<<RBol, RRep(RCh("_"), 0, 2), RSet(Lower),
           RPlus(RSet(Lower \cup Digit \cup {"_"})), RRep(RCh("_"), 0, 2), REol>>)

SNAKE_CASE == RCat(<<RBol, RRep(RCh("_"), 0, 2), RSet(Lower),
                     RStar(RSet(Lower \cup Digit \cup {"_"})), RRep(RCh("_"), 0, 2), REol>>)
UPPER_SNAKE == RCat(<<RBol, RSet(Upper), RStar(RSet(Upper \cup Digit \cup {"_"})), REol>>)
PASCAL_CASE == RCat(<<RBol, ROpt(RCh("_")), RSet(Upper),
                      RStar(RSet(Lower \cup Upper \cup Digit)), REol>>)

RECURSIVE NamingTargets(_, _, _, _)
NamingTargets(targets, node, filepath, report) ==
    IF targets = <<>> THEN report
    ELSE LET target == Head(targets)
             r1 == IF ~target.is_name THEN report
                   ELSE IF iskeyword(target.id) THEN report
                   ELSE IF ReMatch(UPPER_SNAKE, target.id) THEN report
                   ELSE IF ~ReMatch(SNAKE_CASE, target.id)
                   THEN add(report, filepath, node.lineno, "naming",
                            <<"Variable should use snake_case", target.id>>, "warning")
                   ELSE report
         IN  NamingTargets(Tail(targets), node, filepath, r1)

NamingOfNode(node, filepath, report) ==
    IF node.type = "ClassDef"
    THEN IF ~ReMatch(PASCAL_CASE, node.name)
         THEN add(report, filepath, node.lineno, "naming",
                  <<"Class should use PascalCase", node.name>>, "warning")
         ELSE report
    ELSE IF IsFunction(node)
    THEN IF ~ReMatch(SNAKE_CASE, node.name)
         THEN add(report, filepath, node.lineno, "naming",
                  <<"Function should use snake_case", node.name>>, "warning")
         ELSE report
    ELSE IF node.type = "Assign"
    THEN NamingTargets(node.targets, node, filepath, report)
    ELSE report

RECURSIVE NamingNodes(_, _, _)
NamingNodes(nodes, filepath, report) ==
    IF nodes = <<>> THEN report
    ELSE NamingNodes(Tail(nodes), filepath, NamingOfNode(Head(nodes), filepath, report))

check_naming(tree, filepath, report) == NamingNodes(walk(<<tree>>), filepath, report)

\* analyze_file with the fault "files_checked is counted before the parse"
analyze_file_CountsFirst(f, report) ==
    LET r0 == [report EXCEPT !.files_checked = @ + 1]
    IN  IF ~f.readable
        THEN add(r0, f.path, 0, "parse", <<"Cannot read file">>, "error")
        ELSE IF f.syntax_error
        THEN add(r0, f.path, IF f.exc_lineno = NoLineno THEN 0 ELSE f.exc_lineno,
                 "parse", <<"Syntax error">>, "error")
        ELSE check_naming(f.tree, f.path,
                 check_function_length(f.tree, f.path,
                     check_import_organization(f.tree, f.path,
                         check_docstrings(f.tree, f.path,
                             check_type_hints(f.tree, f.path, r0)))))

\* A file on disk as analyze_file meets it: f.readable (read_text succeeds),
\* f.syntax_error with f.exc_lineno (ast.parse raises), else f.tree.
analyze_file(f, report) ==
    IF ~f.readable
    THEN add(report, f.path, 0, "parse", <<"Cannot read file">>, "error")
    ELSE IF f.syntax_error
    THEN add(report, f.path, IF f.exc_lineno = NoLineno THEN 0 ELSE f.exc_lineno,
             "parse", <<"Syntax error">>, "error")
    ELSE LET r0 == [report EXCEPT !.files_checked = @ + 1]
             r1 == check_type_hints(f.tree, f.path, r0)
             r2 == check_docstrings(f.tree, f.path, r1)
             r3 == check_import_organization(f.tree, f.path, r2)
             r4 == check_function_length(f.tree, f.path, r3)
         IN  check_naming(f.tree, f.path, r4)

\* sorted(...): the records of a set in ascending order of path
RECURSIVE SortedByPath(_)
SortedByPath(S) ==
    IF S = {} THEN <<>>
    ELSE LET m == CHOOSE x \in S : \A y \in S : x.path <= y.path
         IN  <<m>> \o SortedByPath(S \ {m})

\* collect_python_files: target is what the path names on disk
collect_python_files(target) ==
    IF target.is_file /\ target.suffix = ".py" THEN <<target.file>>
    ELSE IF target.is_dir THEN SortedByPath(target.rglob_py)
    ELSE <<>>

\* sorted(by_category.items()): the categories in string order
CategoryOrder == <<"docstrings", "function-length", "imports", "naming", "parse", "type-hints">>

GateListingOf(issues, category) ==
    LET sel == SelectSeq(issues, LAMBDA i : i.category = category)
    IN  [k \in 1..Len(sel) |->
            [category |-> category,
             marker |-> IF sel[k].severity = "error" THEN "ERROR" ELSE "WARN ",
             file |-> sel[k].file, line |-> sel[k].line, message |-> sel[k].message]]

\* format_report: the text as the facts it prints
format_report(report) ==
    LET head == <<report.files_checked, report.functions_checked, report.classes_checked>>
    IN  IF report.issues = <<>>
        THEN [counts |-> head, listing |-> <<>>, total |-> <<>>,
              status |-> "ALL CHECKS PASSED"]
        ELSE LET errors == CountIf(report.issues, LAMBDA i : i.severity = "error")
                 warnings == CountIf(report.issues, LAMBDA i : i.severity = "warning")
             IN  [counts |-> head,
                  listing |-> Flatten([c \in 1..Len(CategoryOrder) |->
                                          GateListingOf(report.issues, CategoryOrder[c])]),
                  total |-> <<errors, warnings>>,
                  status |-> IF ~passed(report) THEN "FAILED" ELSE "PASSED (with warnings)"]

(***************************************************************************)
(* doc-structure-validator.py.  A markdown file is the list of lines that  *)
(* content.split("\n") gives.                                              *)
(***************************************************************************)
LowerSeq == <<"a", "b", "c", "d", "e", "f", "g", "h", "i", "j", "k", "l", "m",
              "n", "o", "p", "q", "r", "s", "t", "u", "v", "w", "x", "y", "z">>
UpperSeq == <<"A", "B", "C", "D", "E", "F", "G", "H", "I", "J", "K", "L", "M",
              "N", "O", "P", "Q", "R", "S", "T", "U", "V", "W", "X", "Y", "Z">>

LowerCh(c) == IF c \in Upper THEN LowerSeq[CHOOSE k \in 1..26 : UpperSeq[k] = c] ELSE c
UpperCh(c) == IF c \in Lower THEN UpperSeq[CHOOSE k \in 1..26 : LowerSeq[k] = c] ELSE c

\* str.lower() and str.upper()
ToLower(s) == [k \in 1..Len(s) |-> LowerCh(s[k])]
ToUpper(s) == [k \in 1..Len(s) |-> UpperCh(s[k])]

\* a literal under re.IGNORECASE
RLitI(str) == RCat([k \in 1..Len(str) |-> RSet({LowerCh(str[k]), UpperCh(str[k])})])

\* the backquote character, which a TLA+ string cannot hold
BT == "<backquote>"

\* "sep".join(parts)
Join(sep, parts) ==
    Flatten([k \in 1..Len(parts) |-> IF k = 1 THEN parts[k] ELSE sep \o parts[k]])

\* m.group() for each of the matches ms in s
MatchTexts(s, ms) == [k \in 1..Len(ms) |-> Slice(s, ms[k].start, ms[k].end)]

\* str.split(): the maximal runs of non-space characters
SplitWords(s) == MatchTexts(s, FindIter(RPlus(RNot(SpaceCh)), s))

\* dataclass Issue of doc-structure-validator
DocIssue(line, severity, category, message) ==
    [line |-> line, severity |-> severity, category |-> category, message |-> message]

\* ValidationReport.error_count / warning_count / info_count
error_count(report) == CountIf(report.issues, LAMBDA i : i.severity = "error")
warning_count(report) == CountIf(report.issues, LAMBDA i : i.severity = "warning")
info_count(report) == CountIf(report.issues, LAMBDA i : i.severity = "info")

MARKER_PATTERN ==
    RCat(<<RWb, RAlt(<<RLitI(<<"T", "O", "D", "O">>), RLitI(<<"T", "B", "D">>),
                      RLitI(<<"F", "I", "X", "M", "E">>), RLitI(<<"H", "A", "C", "K">>),
                      RLitI(<<"X", "X", "X">>)>>), RWb>>)
HeadingHashes == RRep(RCh("#"), 1, 6)
HeadingRest == RCat(<<RPlus(RAny), REol>>)
HEADING_PATTERN == RCat(<<RBol, HeadingHashes, RPlus(RS), HeadingRest>>)
IMAGE_PATTERN ==
    RCat(<<RCh("!"), RCh("["), RStar(RNot({"]"})), RCh("]"),
           RCh("("), RPlus(RNot({")"})), RCh(")")>>)
LINK_PATTERN ==
    RCat(<<RNlb(RCh("!")), RCh("["), RPlus(RNot({"]"})), RCh("]"),
           RCh("("), RPlus(RNot({")"})), RCh(")")>>)
ANCHOR_PATTERN ==
    RCat(<<RCh("<"), RLitI(<<"a">>), RPlus(RS),
           RAlt(<<RLitI(<<"n", "a", "m", "e">>), RLitI(<<"i", "d">>)>>),
           RStar(RS), RCh("="), RStar(RS), RSet({"\"", "'"}),
           RPlus(RNot({"\"", "'"})), RSet({"\"", "'"})>>)

\* the offset of the first c in s at or after offset pos
FirstAt(s, c, pos) == CHOOSE k \in pos..Len(s) : s[k + 1] = c /\ \A j \in pos..(k - 1) : s[j + 1] # c

\* group 2 of HEADING_PATTERN when it starts at offset e2
HeadingText(s, e2) == Slice(s, e2, Head(Ends(HeadingRest, s, e2)))

\* the groups of HEADING_PATTERN when group 1 ends at offset e1 (-1: no match)
HeadingGroups(s, e1) ==
    IF e1 < 0 THEN [ok |-> FALSE]
    ELSE [ok |-> TRUE, group1 |-> Slice(s, 0, e1),
          group2 |-> HeadingText(s, FirstEndWith(RPlus(RS), HeadingRest, s, e1))]

\* HEADING_PATTERN.match(s) with its groups: the "#"s and the text
HeadingMatch(s) ==
    HeadingGroups(s, FirstEndWith(HeadingHashes, RCat(<<RPlus(RS), HeadingRest>>), s, 0))

\* slugify_heading
slugify_heading(text) ==
    LET t1 == ToLower(Strip(text))
        t2 == ReSub(RNot(WordCh \cup SpaceCh \cup {"-"}), <<>>, t1)
    IN  ReSub(RPlus(RS), <<"-">>, t2)

\* count_words
count_words(text) ==
    LET cleaned == ReSub(RCat(<<RCh(BT), RPlus(RNot({BT})), RCh(BT)>>), <<>>, text)
        spaced == ReSub(RSet({"#", "*", "_", "[", "]", "(", ")", ">", "|"}), <<" ">>, cleaned)
    IN  Len(SplitWords(spaced))

IsFence(stripped) == StartsWith(stripped, <<BT, BT, BT>>)

\* images.append(...) for the matches ms of IMAGE_PATTERN in line i
ImageRecords(ms, line, i) ==
    [k \in 1..Len(ms) |->
        LET close == FirstAt(line, "]", ms[k].start + 2)
        IN  [alt |-> Slice(line, ms[k].start + 2, close),
             src |-> Slice(line, close + 2, ms[k].end - 1), line |-> i]]

ImagesOfLine(line, i) == ImageRecords(FindIter(IMAGE_PATTERN, line), line, i)

\* links.append(...) for the matches ms of LINK_PATTERN in line i
LinkRecords(ms, line, i) ==
    [k \in 1..Len(ms) |->
        LET close == FirstAt(line, "]", ms[k].start + 1)
        IN  [text |-> Slice(line, ms[k].start + 1, close),
             href |-> Slice(line, close + 2, ms[k].end - 1), line |-> i]]

LinksOfLine(line, i) == LinkRecords(FindIter(LINK_PATTERN, line), line, i)

\* the locals of parse_document before the loop; a lang of None is written
\* as the empty text (both are false where lang is read)
ParseStart == [headings |-> <<>>, code_blocks |-> <<>>, images |-> <<>>, links |-> <<>>,
               in_code_block |-> FALSE, code_block_start |-> -1, code_block_lang |-> <<>>]

\* headings.append(...) when hm, the match of HEADING_PATTERN, is one
WithHeading(st, hm, i) ==
    IF hm.ok
    THEN [st EXCEPT !.headings = Append(@, [level |-> Len(hm.group1),
                                            text |-> Strip(hm.group2), line |-> i])]
    ELSE st

\* the loop body with the fault "a fence is looked for on the raw line"
ParseLine_RawFence(st, line, i) ==
    LET stripped == Strip(line)
    IN  IF IsFence(line)
        THEN IF ~st.in_code_block
             THEN [st EXCEPT !.in_code_block = TRUE, !.code_block_start = i,
                             !.code_block_lang =
                                 IF Len(stripped) > 3
                                 THEN SplitWords(Strip(Slice(stripped, 3, Len(stripped))))[1]
                                 ELSE <<>>]
             ELSE [st EXCEPT !.in_code_block = FALSE,
                             !.code_blocks = Append(@, [start |-> st.code_block_start, end |-> i,
                                                        lang |-> st.code_block_lang,
                                                        unclosed |-> FALSE]),
                             !.code_block_lang = <<>>]
        ELSE IF st.in_code_block THEN st
        ELSE [WithHeading(st, HeadingMatch(stripped), i)
                 EXCEPT !.images = @ \o ImagesOfLine(line, i),
                        !.links = @ \o LinksOfLine(line, i)]

\* one pass of the loop body of parse_document, on line i (1-based)
ParseLine(st, line, i) ==
    LET stripped == Strip(line)
    IN  IF IsFence(stripped)
        THEN IF ~st.in_code_block
             THEN [st EXCEPT !.in_code_block = TRUE, !.code_block_start = i,
                             !.code_block_lang =
                                 IF Len(stripped) > 3
                                 THEN SplitWords(Strip(Slice(stripped, 3, Len(stripped))))[1]
                                 ELSE <<>>]
             ELSE [st EXCEPT !.in_code_block = FALSE,
                             !.code_blocks = Append(@, [start |-> st.code_block_start, end |-> i,
                                                        lang |-> st.code_block_lang,
                                                        unclosed |-> FALSE]),
                             !.code_block_lang = <<>>]
        ELSE IF st.in_code_block THEN st
        ELSE [WithHeading(st, HeadingMatch(stripped), i)
                 EXCEPT !.images = @ \o ImagesOfLine(line, i),
                        !.links = @ \o LinksOfLine(line, i)]

RECURSIVE ParseLoop(_, _, _)
ParseLoop(st, lines, i) ==
    IF i > Len(lines) THEN st ELSE ParseLoop(ParseLine(st, lines[i], i), lines, i + 1)

\* the end of parse_document with the fault "the open block ends after the
\* last line"
ParseEnd_PastEnd(st, lines) ==
    [headings |-> st.headings,
     code_blocks |-> IF st.in_code_block
                     THEN Append(st.code_blocks,
                                 [start |-> st.code_block_start, end |-> Len(lines) + 1,
                                  lang |-> st.code_block_lang, unclosed |-> TRUE])
                     ELSE st.code_blocks,
     images |-> st.images, links |-> st.links]

\* what parse_document does after the loop: a fence left open is recorded
\* as a block that runs to the last line
ParseEnd(st, lines) ==
    [headings |-> st.headings,
     code_blocks |-> IF st.in_code_block
                     THEN Append(st.code_blocks,
                                 [start |-> st.code_block_start, end |-> Len(lines),
                                  lang |-> st.code_block_lang, unclosed |-> TRUE])
                     ELSE st.code_blocks,
     images |-> st.images, links |-> st.links]

\* parse_document: headings, code_blocks, images, links
parse_document(lines) == ParseEnd(ParseLoop(ParseStart, lines, 1), lines)

RECURSIVE HierarchyLoop(_, _, _)
HierarchyLoop(headings, prev_level, issues) ==
    IF headings = <<>> THEN issues
    ELSE LET h == Head(headings)
             level == h.level
         IN  HierarchyLoop(Tail(headings), level,
                 IF prev_level > 0 /\ level > prev_level + 1
                 THEN Append(issues, DocIssue(h.line, "error", "heading-hierarchy",
                          [what |-> "Heading level skipped", from |-> prev_level, to |-> level,
                           text |-> h.text, expected |-> prev_level + 1]))
                 ELSE issues)

\* validate_heading_hierarchy with prev_level starting at 1 instead of 0
validate_heading_hierarchy_From1(headings, issues) ==
    IF headings = <<>>
    THEN Append(issues, DocIssue(1, "warning", "structure", <<"Document has no headings.">>))
    ELSE HierarchyLoop(headings, 1, issues)

validate_heading_hierarchy(headings, issues) ==
    IF headings = <<>>
    THEN Append(issues, DocIssue(1, "warning", "structure", <<"Document has no headings.">>))
    ELSE HierarchyLoop(headings, 0, issues)

\* the inner loop of validate_empty_sections over 0-based indices li .. end_line-1
RECURSIVE SectionContent(_, _, _, _, _)
SectionContent(lines, li, end_line, in_code, content_lines) ==
    IF li >= end_line THEN content_lines
    ELSE LET raw == IF li < Len(lines) THEN Strip(lines[li + 1]) ELSE <<>>
         IN  IF IsFence(raw)
             THEN SectionContent(lines, li + 1, end_line, ~in_code, content_lines)
             ELSE SectionContent(lines, li + 1, end_line, in_code,
                      IF ~in_code /\ raw # <<>> /\ ~ReMatch(HEADING_PATTERN, raw)
                      THEN Append(content_lines, raw) ELSE content_lines)

\* sum(count_words(cl) for cl in content_lines)
WordCountOf(content_lines) ==
    SeqSum([k \in 1..Len(content_lines) |-> count_words(content_lines[k])])

\* the section with the fault "every section runs to the end of the document"
SectionOf_ToEnd(headings, idx, lines) ==
    LET h == headings[idx]
    IN  [heading |-> h.text, level |-> h.level, line |-> h.line,
         word_count |-> WordCountOf(SectionContent(lines, h.line, Len(lines), FALSE, <<>>))]

\* the SectionInfo of headings[idx] (1-based idx)
SectionOf(headings, idx, lines) ==
    LET h == headings[idx]
        start_line == h.line
        end_line == IF idx + 1 <= Len(headings) THEN headings[idx + 1].line - 1 ELSE Len(lines)
    IN  [heading |-> h.text, level |-> h.level, line |-> h.line,
         word_count |-> WordCountOf(SectionContent(lines, start_line, end_line, FALSE, <<>>))]

\* sections.append(s) and the empty-section issue when s has no words
WithSection(acc, s) ==
    [sections |-> Append(acc.sections, s),
     issues |-> IF s.word_count = 0
                THEN Append(acc.issues,
                            DocIssue(s.line, "warning", "empty-section",
                                     <<"Section appears to have no content.", s.heading>>))
                ELSE acc.issues]

\* validate_empty_sections: the sections returned and the issues list after it
RECURSIVE EmptySectionsLoop(_, _, _, _)
EmptySectionsLoop(headings, idx, lines, acc) ==
    IF idx > Len(headings) THEN acc
    ELSE EmptySectionsLoop(headings, idx + 1, lines,
                           WithSection(acc, SectionOf(headings, idx, lines)))

validate_empty_sections(headings, lines, issues) ==
    EmptySectionsLoop(headings, 1, lines, [sections |-> <<>>, issues |-> issues])

RECURSIVE BrokenLinks(_, _, _)
BrokenLinks(links, heading_slugs, issues) ==
    IF links = <<>> THEN issues
    ELSE LET href == Head(links).href
             target == ToLower(Slice(href, 1, Len(href)))
         IN  BrokenLinks(Tail(links), heading_slugs,
                 IF StartsWith(href, <<"#">>) /\ target \notin heading_slugs
                 THEN Append(issues, DocIssue(Head(links).line, "error", "broken-link",
                                              <<"Internal link does not match any heading or anchor.", target>>))
                 ELSE issues)

\* anchor.group(1) of the match m of ANCHOR_PATTERN in text: what stands
\* between the quotes
AnchorName(text, m) ==
    LET q == CHOOSE k \in m.start..m.end : text[k + 1] \in {"\"", "'"}
                 /\ \A j \in m.start..(k - 1) : text[j + 1] \notin {"\"", "'"}
    IN  Slice(text, q + 1, m.end - 1)

AnchorNames(text, anchors) == {ToLower(AnchorName(text, anchors[k])) : k \in 1..Len(anchors)}

\* the slugs added by the loop over ANCHOR_PATTERN.finditer(text)
AnchorSlugs(text) == AnchorNames(text, FindIter(ANCHOR_PATTERN, text))

\* validate_internal_links with the fault "the heading text is lower-cased
\* but not slugified"
validate_internal_links_RawText(headings, links, lines, issues) ==
    BrokenLinks(links,
                {ToLower(headings[k].text) : k \in 1..Len(headings)}
                    \cup AnchorSlugs(Join(<<"\n">>, lines)),
                issues)

validate_internal_links(headings, links, lines, issues) ==
    BrokenLinks(links,
                {slugify_heading(headings[k].text) : k \in 1..Len(headings)}
                    \cup AnchorSlugs(Join(<<"\n">>, lines)),
                issues)

\* validate_code_blocks with the fault "an unclosed block is reported at its end"
RECURSIVE validate_code_blocks_AtEnd(_, _)
validate_code_blocks_AtEnd(code_blocks, issues) ==
    IF code_blocks = <<>> THEN issues
    ELSE LET cb == Head(code_blocks)
         IN  validate_code_blocks_AtEnd(Tail(code_blocks),
                 IF cb.unclosed
                 THEN Append(issues, DocIssue(cb.end, "error", "code-block",
                                              <<"Unclosed code block">>))
                 ELSE IF cb.lang = <<>>
                 THEN Append(issues, DocIssue(cb.start, "warning", "code-block",
                                              <<"Code block missing language tag">>))
                 ELSE issues)

RECURSIVE validate_code_blocks(_, _)
validate_code_blocks(code_blocks, issues) ==
    IF code_blocks = <<>> THEN issues
    ELSE LET cb == Head(code_blocks)
         IN  validate_code_blocks(Tail(code_blocks),
                 IF cb.unclosed
                 THEN Append(issues, DocIssue(cb.start, "error", "code-block",
                                              <<"Unclosed code block">>))
                 ELSE IF cb.lang = <<>>
                 THEN Append(issues, DocIssue(cb.start, "warning", "code-block",
                                              <<"Code block missing language tag">>))
                 ELSE issues)

RECURSIVE validate_images(_, _)
validate_images(images, issues) ==
    IF images = <<>> THEN issues
    ELSE LET img == Head(images)
         IN  validate_images(Tail(images),
                 IF Strip(img.alt) = <<>>
                 THEN Append(issues, DocIssue(img.line, "warning", "accessibility",
                                              <<"Image missing alt text", img.src>>))
                 ELSE issues)

\* the issues for the matches ms of MARKER_PATTERN in line i
MarkerIssues(ms, line, i) ==
    [k \in 1..Len(ms) |->
        DocIssue(i, "info", "marker",
                 <<"Found marker", Slice(line, ms[k].start, ms[k].end),
                   Slice(Strip(line), 0, 80)>>)]

MarkersOfLine(line, i) == MarkerIssues(FindIter(MARKER_PATTERN, line), line, i)

RECURSIVE MarkersLoop(_, _, _, _)
MarkersLoop(lines, i, in_code, issues) ==
    IF i > Len(lines) THEN issues
    ELSE IF IsFence(Strip(lines[i])) THEN MarkersLoop(lines, i + 1, ~in_code, issues)
    ELSE IF in_code THEN MarkersLoop(lines, i + 1, in_code, issues)
    ELSE MarkersLoop(lines, i + 1, in_code, issues \o MarkersOfLine(lines[i], i))

\* validate_markers with the fault "silent once issues have been found"
validate_markers_IfClean(lines, issues) ==
    IF issues # <<>> THEN issues ELSE MarkersLoop(lines, 1, FALSE, issues)

validate_markers(lines, issues) == MarkersLoop(lines, 1, FALSE, issues)

\* the total_words loop of validate_document
RECURSIVE WordLines(_, _, _)
WordLines(lines, i, in_code) ==
    IF i > Len(lines) THEN <<>>
    ELSE IF IsFence(Strip(lines[i])) THEN WordLines(lines, i + 1, ~in_code)
    ELSE IF ~in_code THEN <<lines[i]>> \o WordLines(lines, i + 1, in_code)
    ELSE WordLines(lines, i + 1, in_code)

NewValidationReport(file_path) ==
    [file_path |-> file_path, total_words |-> 0, total_headings |-> 0,
     total_code_blocks |-> 0, total_images |-> 0, total_links |-> 0,
     sections |-> <<>>, issues |-> <<>>]

\* the validators that follow validate_empty_sections, on its issues list
LaterValidators(doc, lines, issues) ==
    validate_markers(lines,
        validate_images(doc.images,
            validate_code_blocks(doc.code_blocks,
                validate_internal_links(doc.headings, doc.links, lines, issues))))

\* the report once validate_empty_sections has returned es
ReportAfterSections(file_path, doc, lines, es) ==
    [file_path |-> file_path,
     total_words |-> count_words(Join(<<" ">>, WordLines(lines, 1, FALSE))),
     total_headings |-> Len(doc.headings),
     total_code_blocks |-> Len(doc.code_blocks),
     total_images |-> Len(doc.images),
     total_links |-> Len(doc.links),
     sections |-> es.sections,
     issues |-> LaterValidators(doc, lines, es.issues)]

\* validate_document from the parsed document on
ValidateParsed(file_path, doc, lines) ==
    ReportAfterSections(file_path, doc, lines,
        validate_empty_sections(doc.headings, lines,
                                validate_heading_hierarchy(doc.headings, <<>>)))

\* validate_document for a file that exists and can be read (f.lines)
ValidateLines(f) == ValidateParsed(f.path, parse_document(f.lines), f.lines)

\* validate_document; f.exists is Path.exists() at the time of the call
validate_document(f) ==
    IF ~f.exists
    THEN [NewValidationReport(f.path) EXCEPT
             !.issues = <<DocIssue(0, "error", "file", <<"File not found", f.path>>)>>]
    ELSE ValidateLines(f)

severity_order(severity) ==
    CASE severity = "error" -> 0 [] severity = "warning" -> 1
      [] severity = "info" -> 2 [] OTHER -> 3

\* the key comparison with the fault "an issue goes before the issues of its
\* own key"
IssueKeyLE_NoTies(a, b) ==
    \/ severity_order(a.severity) < severity_order(b.severity)
    \/ severity_order(a.severity) = severity_order(b.severity) /\ a.line < b.line

\* sorted(..., key=(severity_order, line)): stable insertion sort
IssueKeyLE(a, b) ==
    \/ severity_order(a.severity) < severity_order(b.severity)
    \/ severity_order(a.severity) = severity_order(b.severity) /\ a.line <= b.line

RECURSIVE InsertByKey(_, _)
InsertByKey(sorted, x) ==
    IF sorted = <<>> THEN <<x>>
    ELSE IF IssueKeyLE(sorted[Len(sorted)], x) THEN Append(sorted, x)
    ELSE Append(InsertByKey(SubSeq(sorted, 1, Len(sorted) - 1), x), sorted[Len(sorted)])

RECURSIVE SortedByKey(_, _)
SortedByKey(xs, acc) ==
    IF xs = <<>> THEN acc ELSE SortedByKey(Tail(xs), InsertByKey(acc, Head(xs)))

\* the score line of format_report_text
TextScore(report) ==
    Max(0, 100 - (error_count(report) * 10) - (warning_count(report) * 3) - info_count(report))

\* the "score" entry with the fault "no floor at 0"
JsonScore_NoFloor(report) ==
    100 - (error_count(report) * 10) - (warning_count(report) * 3) - info_count(report)

\* the "score" entry of format_report_json
JsonScore(report) ==
    Max(0, 100 - (error_count(report) * 10) - (warning_count(report) * 3) - info_count(report))

\* format_report_text: the text as the facts it prints
format_report_text(report) ==
    [file |-> report.file_path,
     stats |-> <<report.total_words, report.total_headings, report.total_code_blocks,
                 report.total_images, report.total_links>>,
     counts |-> <<error_count(report), warning_count(report), info_count(report)>>,
     sections |-> report.sections,
     issues |-> SortedByKey(report.issues, <<>>),
     score |-> TextScore(report)]

\* format_report_json: the data object
format_report_json(report) ==
    [file |-> report.file_path,
     stats |-> <<report.total_words, report.total_headings, report.total_code_blocks,
                 report.total_images, report.total_links>>,
     sections |-> report.sections,
     issues |-> report.issues,
     summary |-> [errors |-> error_count(report), warnings |-> warning_count(report),
                  info |-> info_count(report), score |-> JsonScore(report)]]

\* find_markdown_files: os.walk and sorted()
find_markdown_files(target) == SortedByPath(target.walk_md)

(***************************************************************************)
(* review-checklist.py.  A source file is the list of lines that           *)
(* content.splitlines() gives; content is those lines joined by "\n".      *)
(***************************************************************************)
\* the thresholds that check_file writes as literals
FileLineThreshold == 300
FunctionLineThreshold == 50
NestingThreshold == 3
LineLengthThreshold == 120

\* dataclass Issue of review-checklist
ReviewIssue(rule, severity, line, message) ==
    [rule |-> rule, severity |-> severity, line |-> line, message |-> message]

FnPrefix ==
    RCat(<<RAlt(<<RBolM, RS>>),
           ROpt(RCat(<<RLit(<<"e", "x", "p", "o", "r", "t">>), RPlus(RS)>>)),
           ROpt(RCat(<<RLit(<<"d", "e", "f", "a", "u", "l", "t">>), RPlus(RS)>>)),
           ROpt(RCat(<<RLit(<<"a", "s", "y", "n", "c">>), RPlus(RS)>>))>>)
FnDeclHead == RCat(<<FnPrefix, RLit(<<"f", "u", "n", "c", "t", "i", "o", "n">>), RPlus(RS)>>)
FnArrowHead ==
    RCat(<<FnPrefix, RAlt(<<RLit(<<"c", "o", "n", "s", "t">>), RLit(<<"l", "e", "t">>), RLit(<<"v", "a", "r">>)>>), RPlus(RS)>>)
FnArrowTail ==
    RCat(<<RStar(RS), RCh("="), RStar(RS),
           ROpt(RCat(<<RLit(<<"a", "s", "y", "n", "c">>), RPlus(RS)>>)),
           RAlt(<<RLit(<<"f", "u", "n", "c", "t", "i", "o", "n">>),
                  RCat(<<RCh("("), RStar(RNot({")"})), RCh(")"), RStar(RS), RLit(<<"=", ">">>)>>),
                  RCat(<<RPlus(RW), RStar(RS), RLit(<<"=", ">">>)>>)>>)>>)
FnMethodTail ==
    RCat(<<RStar(RS), RCh("("), RStar(RNot({")"})), RCh(")"), RStar(RS), RCh("{")>>)
FUNCTION_PATTERN ==
    RAlt(<<RCat(<<FnDeclHead, RPlus(RW)>>),
           RCat(<<FnArrowHead, RPlus(RW), FnArrowTail>>),
           RCat(<<RPlus(RW), FnMethodTail>>)>>)

CONSOLE_LOG_PATTERN ==
    RCat(<<RWb, RLit(<<"c", "o", "n", "s", "o", "l", "e">>), RCh("."),
           RAlt(<<RLit(<<"l", "o", "g">>), RLit(<<"d", "e", "b", "u", "g">>), RLit(<<"i", "n", "f", "o">>), RLit(<<"w", "a", "r", "n">>), RLit(<<"e", "r", "r", "o", "r">>), RLit(<<"t", "r", "a", "c", "e">>)>>),
           RStar(RS), RCh("(")>>)
TODO_PATTERN ==
    RCat(<<RWb, RAlt(<<RLitI(<<"T", "O", "D", "O">>), RLitI(<<"F", "I", "X", "M", "E">>), RLitI(<<"H", "A", "C", "K">>), RLitI(<<"X", "X", "X">>)>>), RWb>>)
MAGIC_NUMBER_PATTERN ==
    RCat(<<RNlb(RSet(WordCh \cup {"."})), ROpt(RCh("-")),
           RAlt(<<RCat(<<RSet({"2", "3", "4", "5", "6", "7", "8", "9"}), RPlus(RSet(Digit))>>),
                  RCat(<<RPlus(RSet(Digit)), RCh("."), RPlus(RSet(Digit))>>)>>),
           RNla(RSet(WordCh \cup {"."}))>>)
EMPTY_CATCH_PATTERN ==
    RCat(<<RLit(<<"c", "a", "t", "c", "h">>), RStar(RS), RCh("("), RStar(RNot({")"})), RCh(")"),
           RStar(RS), RCh("{"), RStar(RS), RCh("}")>>)
SAFE_NUMBER_CONTEXTS ==
    RCat(<<RAlt(<<
        RLitI(<<"p", "o", "r", "t">>), RLitI(<<"t", "i", "m", "e", "o", "u", "t">>), RLitI(<<"d",
        "e", "l", "a", "y">>), RLitI(<<"w", "i", "d", "t", "h">>), RLitI(<<"h", "e", "i", "g", "h",
        "t">>), RLitI(<<"s", "i", "z", "e">>), RLitI(<<"l", "e", "n", "g", "t", "h">>), RLitI(<<"i",
        "n", "d", "e", "x">>), RLitI(<<"c", "o", "u", "n", "t">>), RLitI(<<"m", "a", "x">>),
        RLitI(<<"m", "i", "n">>), RLitI(<<"l", "i", "m", "i", "t">>), RLitI(<<"v", "e", "r", "s",
        "i", "o", "n">>), RLitI(<<"S", "T", "A", "T", "U", "S">>), RLitI(<<"C", "O", "D", "E">>),
        RLitI(<<"p", "a", "d", "d", "i", "n", "g">>), RLitI(<<"m", "a", "r", "g", "i", "n">>),
        RLitI(<<"o", "f", "f", "s", "e", "t">>), RLitI(<<"d", "u", "r", "a", "t", "i", "o", "n">>)>>),
           RStar(RS), RSet({":", "="}), RStar(RS), REol>>)
ImportContext == RCat(<<RAlt(<<RLit(<<"i", "m", "p", "o", "r", "t">>), RLit(<<"r", "e", "q", "u", "i", "r", "e">>), RLit(<<"f", "r", "o", "m">>)>>), RS>>)

\* match.group(1) or match.group(2) or match.group(3) of the match at
\* offset i, where d and a are the offsets at which groups 1 and 2 start
\* (-1: the group did not take part)
GroupText(s, i, d, a) ==
    IF d >= 0 THEN Slice(s, d, Head(Ends(RPlus(RW), s, d)))
    ELSE IF a >= 0 THEN Slice(s, a, FirstEndWith(RPlus(RW), FnArrowTail, s, a))
    ELSE Slice(s, i, FirstEndWith(RPlus(RW), FnMethodTail, s, i))

FunctionNameAt(s, i) ==
    GroupText(s, i, FirstEndWith(FnDeclHead, RPlus(RW), s, i),
              FirstEndWith(FnArrowHead, RCat(<<RPlus(RW), FnArrowTail>>), s, i))

RECURSIVE BraceDelta(_)
BraceDelta(line) ==
    IF line = <<>> THEN 0
    ELSE (IF Head(line) = "{" THEN 1 ELSE IF Head(line) = "}" THEN -1 ELSE 0)
         + BraceDelta(Tail(line))

\* the inner "for j" loop of find_function_spans (0-based i, j): the end
\* index found, or -1 when the loop runs off the file
RECURSIVE SpanEnd(_, _, _, _)
SpanEnd(lines, i, j, depth) ==
    IF j >= Len(lines) THEN -1
    ELSE LET d == depth + BraceDelta(lines[j + 1])
         IN  IF d <= 0 /\ j > i THEN j ELSE SpanEnd(lines, i, j + 1, d)

\* functions.append((name, start + 1, j + 1)) when the inner loop broke at j
SpanFound(lines, i, m, j) ==
    IF j >= 0
    THEN <<[name |-> FunctionNameAt(lines[i + 1], m.start), start |-> i + 1, end |-> j + 1]>>
    ELSE <<>>

\* the pass for a line on which FUNCTION_PATTERN.search found ms[1]
SpanOfMatch(lines, i, ms) ==
    IF ms # <<>> /\ Contains(lines[i + 1], <<"{">>)
    THEN SpanFound(lines, i, ms[1], SpanEnd(lines, i, i, 0))
    ELSE <<>>

\* one pass of the "while i" loop of find_function_spans (0-based i): the
\* span it appends, if any
SpanAt(lines, i) == SpanOfMatch(lines, i, FindIter(FUNCTION_PATTERN, lines[i + 1]))

\* find_function_spans: the passes for i = 0 .. len(lines)-1 share no state
find_function_spans(lines) == Flatten([k \in 1..Len(lines) |-> SpanAt(lines, k - 1)])

StringLiteral(q) ==
    RCat(<<RCh(q),
           RStar(RAlt(<<RNot({q, "\\", "\n"}), RCat(<<RCh("\\"), RAny>>)>>)),
           RCh(q)>>)
TemplateLiteral ==
    RCat(<<RCh(BT), RStar(RAlt(<<RNot({BT, "\\"}), RCat(<<RCh("\\"), RAny>>)>>)), RCh(BT)>>)
LineComment == RCat(<<RLit(<<"/", "/">>), RStar(RAny), REol>>)

\* strip_comments_and_strings
strip_comments_and_strings(line) ==
    ReSub(LineComment, <<>>,
          ReSub(TemplateLiteral, <<"\"", "\"">>,
                ReSub(RAlt(<<StringLiteral("\""), StringLiteral("'")>>), <<"\"", "\"">>, line)))

\* the long-function rule with the fault "length >= 50"
LongFunctionIssues_AtThreshold(functions) ==
    LET long == SelectSeq(functions, LAMBDA f : f.end - f.start + 1 >= FunctionLineThreshold)
    IN  [k \in 1..Len(long) |->
            ReviewIssue("long-function", "warning", long[k].start,
                        <<"Function is too long", long[k].name,
                          long[k].end - long[k].start + 1, FunctionLineThreshold>>)]

\* the loop over functions in check_file
LongFunctionIssues(functions) ==
    LET long == SelectSeq(functions, LAMBDA f : f.end - f.start + 1 > FunctionLineThreshold)
    IN  [k \in 1..Len(long) |->
            ReviewIssue("long-function", "warning", long[k].start,
                        <<"Function is too long", long[k].name,
                          long[k].end - long[k].start + 1, FunctionLineThreshold>>)]

\* the issues for todo_matches, the matches ms of TODO_PATTERN in raw_line
TodoOfMatches(ms, raw_line, i) ==
    [k \in 1..Len(ms) |->
        ReviewIssue("todo-fixme", "info", i,
                    <<"Found comment", ToUpper(Slice(raw_line, ms[k].start, ms[k].end))>>)]

TodoIssues(raw_line, i) == TodoOfMatches(FindIter(TODO_PATTERN, raw_line), raw_line, i)

\* max_depth of the brace loop over one stripped line
RECURSIVE MaxDepth(_, _, _)
MaxDepth(text, brace_depth, max_depth) ==
    IF text = <<>> THEN max_depth
    ELSE IF Head(text) = "{"
    THEN MaxDepth(Tail(text), brace_depth + 1, Max(max_depth, brace_depth + 1))
    ELSE IF Head(text) = "}" THEN MaxDepth(Tail(text), brace_depth - 1, max_depth)
    ELSE MaxDepth(Tail(text), brace_depth, max_depth)

\* the issues for ms, the matches of MAGIC_NUMBER_PATTERN that neither
\* "continue" skips
MagicOfMatches(ms, stripped, i) ==
    [k \in 1..Len(ms) |->
        ReviewIssue("magic-number", "info", i,
                    <<"Magic number", Slice(stripped, ms[k].start, ms[k].end)>>)]

MagicIssues(stripped, raw_line, i) ==
    MagicOfMatches(SelectSeq(FindIter(MAGIC_NUMBER_PATTERN, stripped),
                       LAMBDA m : /\ ~ReSearch(SAFE_NUMBER_CONTEXTS, Slice(stripped, 0, m.start))
                                  /\ ~ReSearch(ImportContext, raw_line)),
                   stripped, i)

\* the issues one pass of the per-line loop of check_file appends, given
\* stripped = strip_comments_and_strings(raw_line)
StrippedIssues(raw_line, stripped, i) ==
    LET max_depth == MaxDepth(stripped, 0, 0)
    IN  TodoIssues(raw_line, i)
        \o (IF ReSearch(CONSOLE_LOG_PATTERN, stripped)
            THEN <<ReviewIssue("console-log", "warning", i,
                               <<"console.log/debug/warn/error left in code">>)>>
            ELSE <<>>)
        \o (IF max_depth > NestingThreshold
            THEN <<ReviewIssue("deep-nesting", "warning", i,
                               <<"Line has levels of nesting", max_depth, NestingThreshold>>)>>
            ELSE <<>>)
        \o MagicIssues(stripped, raw_line, i)
        \o (IF Len(raw_line) > LineLengthThreshold
            THEN <<ReviewIssue("long-line", "info", i,
                               <<"Line is too long", Len(raw_line), LineLengthThreshold>>)>>
            ELSE <<>>)

LineIssues(raw_line, i) == StrippedIssues(raw_line, strip_comments_and_strings(raw_line), i)

\* "/*" in raw_line and "*/" not in raw_line
OpensBlockComment(raw_line) ==
    Contains(raw_line, <<"/", "*">>) /\ ~Contains(raw_line, <<"*", "/">>)

\* the value of in_block_comment when the pass for line i begins: an earlier
\* line set it and no line after that one and before i, holding "*/",
\* cleared it
in_block_comment(lines, i) ==
    \E j \in 1..(i - 1) :
        /\ OpensBlockComment(lines[j])
        /\ \A k \in (j + 1)..(i - 1) : ~Contains(lines[k], <<"*", "/">>)

\* the per-line loop of check_file: a pass is cut short by either "continue"
LineLoop(lines) ==
    Flatten([i \in 1..Len(lines) |->
                IF OpensBlockComment(lines[i]) \/ in_block_comment(lines, i)
                THEN <<>>
                ELSE LineIssues(lines[i], i)])

\* the line of an offset with the fault "lines counted from 0"
LineOfOffset_FromZero(content, pos) ==
    Cardinality({k \in 1..pos : content[k] = "\n"})

\* content[:pos].count("\n") + 1
LineOfOffset(content, pos) ==
    Cardinality({k \in 1..pos : content[k] = "\n"}) + 1

\* the issues for ms, the matches of EMPTY_CATCH_PATTERN in content
EmptyCatchOfMatches(ms, content) ==
    [k \in 1..Len(ms) |->
        ReviewIssue("empty-catch", "warning", LineOfOffset(content, ms[k].start),
                    <<"Empty catch block">>)]

EmptyCatchIssues(content) == EmptyCatchOfMatches(FindIter(EMPTY_CATCH_PATTERN, content), content)

\* list.sort(key=lambda issue: issue.line): stable
RECURSIVE InsertByLine(_, _)
InsertByLine(sorted, x) ==
    IF sorted = <<>> THEN <<x>>
    ELSE IF sorted[Len(sorted)].line <= x.line THEN Append(sorted, x)
    ELSE Append(InsertByLine(SubSeq(sorted, 1, Len(sorted) - 1), x), sorted[Len(sorted)])

RECURSIVE SortedByLine(_, _)
SortedByLine(xs, acc) ==
    IF xs = <<>> THEN acc ELSE SortedByLine(Tail(xs), InsertByLine(acc, Head(xs)))

\* check_file for a file that exists and can be read
check_file(f) ==
    LET lines == f.lines
        content == Join(<<"\n">>, lines)
        issues == (IF Len(lines) > FileLineThreshold
                   THEN <<ReviewIssue("file-length", "warning", 1,
                                      <<"File is too long", Len(lines), FileLineThreshold>>)>>
                   ELSE <<>>)
                  \o LongFunctionIssues(find_function_spans(lines))
                  \o LineLoop(lines)
                  \o EmptyCatchIssues(content)
    IN  [file |-> f.path, total_lines |-> Len(lines), issues |-> SortedByLine(issues, <<>>)]

\* ReviewReport.summary: the count of issues per rule
Rules == {"file-length", "long-function", "todo-fixme", "console-log", "deep-nesting",
          "magic-number", "long-line", "empty-catch"}
summary(report) ==
    LET present == {r \in Rules : \E k \in 1..Len(report.issues) : report.issues[k].rule = r}
    IN  [r \in present |-> CountIf(report.issues, LAMBDA i : i.rule = r)]

(***************************************************************************)
(* The inputs the runs are started on.                                     *)
(***************************************************************************)
\* bounds of the explored inputs
MaxImports == 3
MaxFiles == 2
MaxDocLines == 3
MaxLinkLines == 11
SpanSlack == 2
MaxSrcLines == 2
MaxTextLen == 3

\* ---- quality-gate: trees and files
N_f == <<"f">>
N_h == <<"_", "h">>
N_Bad == <<"B", "a", "d">>
N_x == <<"x">>
N_C == <<"C">>
N_key == <<"k", "e", "y">>

ImportStatements == {
    [type |-> "Import", names |-> <<<<"os", "path">>>>],
    [type |-> "Import", names |-> <<<<"numpy">>>>],
    [type |-> "Import", names |-> <<<<"numpy">>, <<"sys">>>>],
    [type |-> "ImportFrom", module |-> <<"os", "path">>, level |-> 0],
    [type |-> "ImportFrom", module |-> <<"requests", "api">>, level |-> 0],
    [type |-> "ImportFrom", module |-> <<"os">>, level |-> 1],
    [type |-> "ImportFrom", module |-> NoModule, level |-> 1]}

\* statement st placed on line k
AtLine(st, k) ==
    IF st.type = "Import" THEN [type |-> "Import", lineno |-> k, names |-> st.names]
    ELSE [type |-> "ImportFrom", lineno |-> k, module |-> st.module, level |-> st.level]

ImportBodies ==
    UNION {{[k \in 1..n |-> AtLine(b[k], k)] : b \in [1..n -> ImportStatements]} : n \in 0..MaxImports}

Module(docstring, body) == [type |-> "Module", docstring |-> docstring, body |-> body]

SourceFile(tree) ==
    [path |-> 1, readable |-> TRUE, syntax_error |-> FALSE, exc_lineno |-> NoLineno, tree |-> tree]

\* args stands for node.args.args, kwonlyargs for node.args.kwonlyargs (the
\* parameters after a bare * in the signature)
FunctionDefs ==
    {[type |-> "FunctionDef", lineno |-> 2, end_lineno |-> 2 + len - 1, name |-> name,
      args |-> args, kwonlyargs |-> <<>>, returns |-> returns, docstring |-> docstring,
      body |-> <<>>] :
        name \in {N_f, N_h, N_init, N_Bad},
        args \in {<<>>, <<[arg |-> N_x, annotation |-> TRUE]>>,
                  <<[arg |-> N_self, annotation |-> FALSE], [arg |-> N_x, annotation |-> FALSE]>>},
        returns \in BOOLEAN, docstring \in BOOLEAN,
        len \in {3} \cup ((MAX_FUNCTION_LINES - 1)..(MAX_FUNCTION_LINES + SpanSlack))}

\* def name(x: ..., *, key) with key annotated or not
KeywordOnlyDefs ==
    {[type |-> "FunctionDef", lineno |-> 2, end_lineno |-> 4, name |-> name,
      args |-> <<[arg |-> N_x, annotation |-> TRUE]>>,
      kwonlyargs |-> <<[arg |-> N_key, annotation |-> annotation]>>,
      returns |-> TRUE, docstring |-> TRUE, body |-> <<>>] :
        name \in {N_f, N_h, N_init}, annotation \in BOOLEAN}

ClassOf(fn) ==
    [type |-> "ClassDef", lineno |-> 1, name |-> N_C, docstring |-> fn.docstring, body |-> <<fn>>]

AssignOf(id) ==
    [type |-> "Assign", lineno |-> 1, targets |-> <<[is_name |-> TRUE, id |-> id]>>]

GateFiles ==
    {SourceFile(Module(TRUE, b)) : b \in ImportBodies}
    \cup {SourceFile(Module(TRUE, <<fn>>)) : fn \in FunctionDefs \cup KeywordOnlyDefs}
    \cup {SourceFile(Module(FALSE, <<ClassOf(fn)>>)) : fn \in FunctionDefs}
    \cup {SourceFile(Module(TRUE, <<AssignOf(id)>>)) : id \in {N_x, N_Bad, <<"M", "A", "X">>}}

CleanSource == SourceFile(Module(TRUE, <<>>))
WarningSource == SourceFile(Module(FALSE, <<>>))
ErrorSource ==
    SourceFile(Module(TRUE, <<[type |-> "FunctionDef", lineno |-> 2, end_lineno |-> 4,
                               name |-> N_f, args |-> <<>>, kwonlyargs |-> <<>>,
                               returns |-> FALSE,
                               docstring |-> TRUE, body |-> <<>>]>>))
UnreadableSource == [CleanSource EXCEPT !.readable = FALSE]
BrokenSources ==
    {[CleanSource EXCEPT !.syntax_error = TRUE, !.exc_lineno = l] : l \in {NoLineno, 3}}

SmallGateFiles ==
    {CleanSource, WarningSource, ErrorSource, UnreadableSource} \cup BrokenSources

\* the directories holding n files drawn from S, named 1 .. n
Directories(S) ==
    UNION {{{[d[p] EXCEPT !.path = p] : p \in 1..n} : d \in [1..n -> S]} : n \in 0..MaxFiles}

NoSuchPath == [is_file |-> FALSE, is_dir |-> FALSE]

GateTargets ==
    {NoSuchPath}
    \cup {[is_file |-> TRUE, is_dir |-> FALSE, suffix |-> ".txt", file |-> CleanSource]}
    \cup {[is_file |-> TRUE, is_dir |-> FALSE, suffix |-> ".py", file |-> f] :
             f \in GateFiles \cup SmallGateFiles}
    \cup {[is_file |-> FALSE, is_dir |-> TRUE, rglob_py |-> d] : d \in Directories(SmallGateFiles)}

\* ---- doc-structure-validator: markdown files
Hashes(n) == [k \in 1..n |-> "#"]
HeadingLine(n) == Hashes(n) \o <<" ", "T">> \o <<LowerSeq[n]>>
FenceLine == <<BT, BT, BT>>
TaggedFenceLine == <<" ", BT, BT, BT, "p", "y">>
TextLine == <<"o", "k">>
BrokenLinkLine == <<"[", "x", "]", "(", "#", "q", ")">>
MarkerLine == <<"T", "O", "D", "O">>

DocLineKinds == {HeadingLine(n) : n \in 1..4} \cup {FenceLine, TextLine}

MarkdownFile(lines) == [path |-> 1, exists |-> TRUE, readable |-> TRUE, lines |-> lines]

Repeat(line, n) == [k \in 1..n |-> line]

HeadingDocs == UNION {[1..n -> DocLineKinds] : n \in 1..MaxDocLines}

\* one heading, then a broken links, b markers and c untagged code blocks
ScoreDocs ==
    {<<HeadingLine(1)>> \o Repeat(BrokenLinkLine, a) \o Repeat(MarkerLine, b)
        \o Flatten(Repeat(<<FenceLine, FenceLine>>, c)) :
        a \in 0..MaxLinkLines, b \in 0..2, c \in 0..1}

\* plain and tagged fences between text lines
\* TODO [x](#q)   a marker and a broken link on one line
MarkedLinkLine == MarkerLine \o <<" ">> \o BrokenLinkLine

FenceDocs ==
    UNION {[1..n -> {FenceLine, TaggedFenceLine, TextLine}] : n \in 1..MaxDocLines}

\* the marked link line in prose, in an open block and after a closed block
FencedLinkDocs ==
    {pre \o <<f, MarkedLinkLine>> \o rest :
        pre \in {<<>>, <<MarkedLinkLine>>}, f \in {FenceLine, TaggedFenceLine},
        rest \in {<<>>, <<FenceLine>>, <<FenceLine, MarkedLinkLine>>}}

\* heading texts over letters of both cases, the space, the hyphen and
\* punctuation
TextAlphabet == {"A", "b", " ", "-", "!"}
HeadingTexts == UNION {[1..n -> TextAlphabet] : n \in 1..MaxTextLen}

\* the link [x](#s)
LinkLine(s) == <<"[", "x", "]", "(", "#">> \o s \o <<")">>

\* a heading with the text t, then a link to the slug of t
SlugDocs == {<<<<"#", " ">> \o t, LinkLine(slugify_heading(t))>> : t \in HeadingTexts}

\* a section that holds a fenced code block, alone or before more lines
SectionDocs ==
    {<<HeadingLine(1), TaggedFenceLine, TextLine, FenceLine>> \o rest :
        rest \in {<<>>, <<TextLine>>, <<HeadingLine(2)>>, <<HeadingLine(2), TextLine>>,
                   <<FenceLine, HeadingLine(2)>>}}

\* the lines of an empty file: "".split("\n") is one empty line
EmptyText == <<<<>>>>

DocFiles ==
    {MarkdownFile(ls) : ls \in HeadingDocs \cup ScoreDocs \cup FenceDocs \cup SlugDocs
                                \cup SectionDocs \cup FencedLinkDocs \cup {EmptyText}}

CleanDoc == MarkdownFile(<<HeadingLine(1), TextLine>>)
WarningDoc == MarkdownFile(<<HeadingLine(1)>>)
InfoDoc == MarkdownFile(<<HeadingLine(1), MarkerLine>>)
ErrorDoc == MarkdownFile(<<HeadingLine(1), BrokenLinkLine>>)
VanishedDoc == [CleanDoc EXCEPT !.exists = FALSE]
UnreadableDoc == [CleanDoc EXCEPT !.readable = FALSE]

SmallDocFiles == {CleanDoc, WarningDoc, InfoDoc, ErrorDoc, VanishedDoc, UnreadableDoc}

DocTargets ==
    {NoSuchPath}
    \cup {[is_file |-> TRUE, is_dir |-> FALSE, file |-> f] : f \in DocFiles \cup SmallDocFiles}
    \cup {[is_file |-> FALSE, is_dir |-> TRUE, walk_md |-> d] : d \in Directories(SmallDocFiles)}

\* ---- review-checklist: source files
FunctionOpenLine == <<"f", "u", "n", "c", "t", "i", "o", "n", " ", "f", "(", ")", " ", "{">>
CloseLine == <<"}">>
ConsoleLine == <<"c", "o", "n", "s", "o", "l", "e", ".", "l", "o", "g", "(", "a", ")", ";">>
TodoLine == <<"/", "/", " ", "T", "O", "D", "O", " ", "l", "a", "t", "e", "r">>
PlainLine == <<"l", "e", "t", " ", "a", " ", "=", " ", "b", ";">>
MagicLine == <<"l", "e", "t", " ", "a", " ", "=", " ", "2", "5", ";">>
EmptyCatchLine == <<"t", "r", "y", " ", "{", " ", "a", "(", ")", ";", " ", "}", " ", "c", "a", "t", "c", "h", " ", "(", "e", ")", " ", "{", "}">>

\* "//";console.log(a);   the comment marker stands in a string literal
SlashesInStringLine ==
    <<"\"", "/", "/", "\"", ";">> \o ConsoleLine
\* "console.log(a);"       the call stands in a string literal
CallInStringLine == <<"\"">> \o ConsoleLine \o <<"\"">>
\* `"`+"console.log(a);"   a template literal holding a quote, then the same
CallAfterTemplateLine == <<BT, "\"", BT, "+">> \o CallInStringLine

JsFile(lines) == [path |-> 1, exists |-> TRUE, readable |-> TRUE, lines |-> lines]

\* a function spanning lines 1 .. span (none when span = 0) in a file of n lines
SizedSource(span, n) ==
    IF span = 0 THEN Repeat(<<>>, n)
    ELSE <<FunctionOpenLine>> \o Repeat(<<>>, span - 2) \o <<CloseLine>> \o Repeat(<<>>, n - span)

SizedSources ==
    {SizedSource(span, n) :
        span \in {0} \cup ((FunctionLineThreshold - 1)..(FunctionLineThreshold + SpanSlack)),
        n \in {FunctionLineThreshold + SpanSlack}
               \cup ((FileLineThreshold - 1)..(FileLineThreshold + SpanSlack))}

JsLineKinds ==
    {ConsoleLine, TodoLine, PlainLine, MagicLine, EmptyCatchLine, FunctionOpenLine, CloseLine}

SmallSources == UNION {[1..n -> JsLineKinds] : n \in 0..MaxSrcLines}

\* a line with a string or template literal, alone or before another line
LiteralSources ==
    {<<l>> \o rest : l \in {SlashesInStringLine, CallInStringLine, CallAfterTemplateLine},
                     rest \in {<<>>, <<ConsoleLine>>, <<TodoLine>>}}

\* /*   the opening of a block comment
BlockOpenLine == <<"/", "*">>
\* */   its closing
BlockCloseLine == <<"*", "/">>
\*  * TODO later   a line of a block comment with a marker
TodoInBlockLine == <<" ", "*", " ", "T", "O", "D", "O", " ", "l", "a", "t", "e", "r">>
\* let todo = b;   a marker word that is an identifier, in no comment
TodoNameLine == <<"l", "e", "t", " ", "t", "o", "d", "o", " ", "=", " ", "b", ";">>
\* /* TODO later */   a block comment on one line with a marker
BlockTodoLine == <<"/", "*", " ", "T", "O", "D", "O", " ", "l", "a", "t", "e", "r", " ", "*", "/">>
\* /* console.log(a); */   a call inside a block comment on one line
CallInBlockLine == <<"/", "*", " ", "c", "o", "n", "s", "o", "l", "e", ".", "l", "o", "g", "(", "a", ")", ";", " ", "*", "/">>
\* console.log(a); /* note   a call, then a block comment opens
CallBeforeBlockLine == <<"c", "o", "n", "s", "o", "l", "e", ".", "l", "o", "g", "(", "a", ")", ";", " ", "/", "*", " ", "n", "o", "t", "e">>
\* note */ console.log(a);   a block comment closes, then a call
CallAfterBlockLine == <<"n", "o", "t", "e", " ", "*", "/", " ", "c", "o", "n", "s", "o", "l", "e", ".", "l", "o", "g", "(", "a", ")", ";">>
\* let a = "/*";   the opening marker inside a string literal
BlockInStringLine == <<"l", "e", "t", " ", "a", " ", "=", " ", "\"", "/", "*", "\"", ";">>
\* function f() {}   a function that opens and closes on its line
OneLineFunction == <<"f", "u", "n", "c", "t", "i", "o", "n", " ", "f", "(", ")", " ", "{", "}">>
\* if (a) {   one more level of nesting
NestLine == <<"i", "f", " ", "(", "a", ")", " ", "{">>
\* let a = {b: {c: {d: {}}}};   four levels opened on one line
DeepObjectLine == <<"l", "e", "t", " ", "a", " ", "=", " ", "{", "b", ":", " ", "{", "c", ":", " ", "{", "d", ":", " ", "{", "}", "}", "}", "}", ";">>

\* a block comment of three lines, alone or before one more line
CommentLineKinds == {TodoLine, TodoInBlockLine, TodoNameLine, ConsoleLine, PlainLine}
BlockCommentSources ==
    {<<BlockOpenLine, l, BlockCloseLine>> \o rest :
        l \in CommentLineKinds, rest \in {<<>>} \cup {<<m>> : m \in CommentLineKinds}}

\* a line with a comment marker or a marker word, alone or before more lines
InlineCommentSources ==
    {<<l>> \o rest :
        l \in {BlockTodoLine, CallInBlockLine, CallBeforeBlockLine, CallAfterBlockLine,
                BlockInStringLine, TodoNameLine},
        rest \in {<<>>, <<ConsoleLine>>, <<TodoLine>>, <<CallAfterBlockLine>>,
                   <<PlainLine, CallAfterBlockLine>>}}

\* n blocks nested one per line, and four levels on one line
NestedSources ==
    {Repeat(NestLine, n) \o Repeat(CloseLine, n) : n \in 1..(NestingThreshold + 2)}
    \cup {<<DeepObjectLine>>, <<NestLine, DeepObjectLine, CloseLine>>}

\* a function on one line, alone or before more lines
OneLineFunctionSources ==
    {<<OneLineFunction>> \o rest :
        rest \in {<<>>, <<PlainLine>>, <<PlainLine, PlainLine>>, <<OneLineFunction>>,
                   <<CloseLine>>}}

ReviewTargets ==
    {JsFile(ls) : ls \in SizedSources \cup SmallSources \cup LiteralSources
                     \cup BlockCommentSources \cup InlineCommentSources
                     \cup NestedSources \cup OneLineFunctionSources}
    \cup {[JsFile(<<PlainLine>>) EXCEPT !.exists = FALSE],
          [JsFile(<<PlainLine>>) EXCEPT !.readable = FALSE]}

(***************************************************************************)
(* The runs.  One behaviour is one process: tool says which script runs,   *)
(* argv and target are its command line and what the path names on disk,   *)
(* pc is the position in main(), the rest are main's local variables, what *)
(* it printed and the exit status (None while running).                    *)
(***************************************************************************)
VARIABLES tool, pc, argv, target, files, idx, report, reports,
          total_errors, total_warnings, stdout, exit_code

vars == <<tool, pc, argv, target, files, idx, report, reports,
          total_errors, total_warnings, stdout, exit_code>>

Unset ==
    /\ files = <<>> /\ idx = 0 /\ report = None /\ reports = <<>>
    /\ total_errors = 0 /\ total_warnings = 0 /\ stdout = None /\ exit_code = None

InitGate ==
    /\ tool = "quality-gate" /\ pc = "main"
    /\ \/ argv = [given |-> FALSE] /\ target = NoSuchPath
       \/ argv = [given |-> TRUE] /\ target \in GateTargets
    /\ Unset

InitDoc ==
    /\ tool = "doc-structure-validator" /\ pc = "main"
    /\ \/ /\ argv = [given |-> FALSE, json |-> FALSE, recursive |-> FALSE,
                     fail_on_warnings |-> FALSE]
          /\ target = NoSuchPath
       \/ /\ argv \in [given : {TRUE}, json : BOOLEAN, recursive : BOOLEAN,
                       fail_on_warnings : BOOLEAN]
          /\ target \in DocTargets
          /\ argv.recursive => target.is_dir
    /\ Unset

InitReview ==
    /\ tool = "review-checklist" /\ pc = "main"
    /\ \/ argv = [given |-> FALSE, json |-> FALSE] /\ target = NoSuchPath
       \/ argv \in [given : {TRUE}, json : BOOLEAN] /\ target \in ReviewTargets
    /\ Unset

Init == InitGate \/ InitDoc \/ InitReview

\* sys.exit(code) after printing out
Exit(out, code) ==
    /\ pc' = "done" /\ stdout' = out /\ exit_code' = code

\* an exception nobody catches: the interpreter prints the traceback and
\* the process ends with status 1
Crash == Exit([kind |-> "traceback"], 1)

\* ---- quality-gate main()
GateMain ==
    /\ tool = "quality-gate" /\ pc = "main"
    /\ IF ~argv.given
       THEN Exit([kind |-> "usage"], 2) /\ UNCHANGED <<files, idx, report>>
       ELSE /\ files' = collect_python_files(target)
            /\ IF files' = <<>>
               THEN Exit([kind |-> "No Python files found"], 2) /\ UNCHANGED <<idx, report>>
               ELSE /\ report' = NewReport /\ idx' = 1 /\ pc' = "loop"
                    /\ UNCHANGED <<stdout, exit_code>>
    /\ UNCHANGED <<tool, argv, target, reports, total_errors, total_warnings>>

\* one pass of "for f in files: analyze_file(f, report)"
GateAnalyze ==
    /\ tool = "quality-gate" /\ pc = "loop" /\ idx <= Len(files)
    /\ report' = analyze_file(files[idx], report)
    /\ idx' = idx + 1
    /\ UNCHANGED <<tool, pc, argv, target, files, reports, total_errors, total_warnings,
                   stdout, exit_code>>

\* print(format_report(report)); sys.exit(0 if report.passed else 1)
GateReport ==
    /\ tool = "quality-gate" /\ pc = "loop" /\ idx > Len(files)
    /\ Exit([kind |-> "report", text |-> format_report(report)],
            IF passed(report) THEN 0 ELSE 1)
    /\ UNCHANGED <<tool, argv, target, files, idx, report, reports, total_errors,
                   total_warnings>>

\* ---- doc-structure-validator main()
\* parse_args() itself ends the process with status 2 when the path is missing
DocMain ==
    /\ tool = "doc-structure-validator" /\ pc = "main"
    /\ IF ~argv.given
       THEN Exit([kind |-> "usage"], 2) /\ UNCHANGED <<files, idx>>
       ELSE IF target.is_dir
       THEN IF ~argv.recursive
            THEN Exit([kind |-> "is a directory"], 1) /\ UNCHANGED <<files, idx>>
            ELSE /\ files' = find_markdown_files(target)
                 /\ IF files' = <<>>
                    THEN Exit([kind |-> "No .md files found"], 1) /\ UNCHANGED idx
                    ELSE idx' = 1 /\ pc' = "loop" /\ UNCHANGED <<stdout, exit_code>>
       ELSE IF target.is_file
       THEN /\ files' = <<target.file>> /\ idx' = 1 /\ pc' = "loop"
            /\ UNCHANGED <<stdout, exit_code>>
       ELSE Exit([kind |-> "not found"], 1) /\ UNCHANGED <<files, idx>>
    /\ UNCHANGED <<tool, argv, target, report, reports, total_errors, total_warnings>>

\* Tally with the fault "the issue list is shared between the reports": the
\* report of a file starts with the issues of the file before it
Tally_SharedIssues(r) ==
    LET carried == IF reports = <<>> THEN <<>> ELSE reports[Len(reports)].issues
        shared == [r EXCEPT !.issues = carried \o @]
    IN  /\ reports' = Append(reports, shared)
        /\ total_errors' = total_errors + error_count(shared)
        /\ total_warnings' = total_warnings + warning_count(shared)

\* reports.append(report) and the two running totals of main
Tally(r) ==
    /\ reports' = Append(reports, r)
    /\ total_errors' = total_errors + error_count(r)
    /\ total_warnings' = total_warnings + warning_count(r)

\* one pass of "for file_path in files"; read_text raising an OSError is
\* not caught anywhere
DocValidate ==
    /\ tool = "doc-structure-validator" /\ pc = "loop" /\ idx <= Len(files)
    /\ IF files[idx].exists /\ ~files[idx].readable
       THEN Crash /\ UNCHANGED <<idx, reports, total_errors, total_warnings>>
       ELSE /\ Tally(validate_document(files[idx]))
            /\ idx' = idx + 1
            /\ UNCHANGED <<pc, stdout, exit_code>>
    /\ UNCHANGED <<tool, argv, target, files, report>>

\* the output (one JSON object for one report, else the combined list; the
\* totals line after the text of more than one report) and the exit status;
\* falling off the end of main is status 0
DocReport ==
    /\ tool = "doc-structure-validator" /\ pc = "loop" /\ idx > Len(files)
    /\ Exit(IF argv.json
            THEN [kind |-> "json", combined |-> Len(reports) # 1,
                  docs |-> [k \in 1..Len(reports) |-> format_report_json(reports[k])]]
            ELSE [kind |-> "text",
                  docs |-> [k \in 1..Len(reports) |-> format_report_text(reports[k])],
                  totals |-> IF Len(reports) > 1
                             THEN <<Len(reports), total_errors, total_warnings>>
                             ELSE <<>>],
            IF total_errors > 0 THEN 1
            ELSE IF argv.fail_on_warnings /\ total_warnings > 0 THEN 1
            ELSE 0)
    /\ UNCHANGED <<tool, argv, target, files, idx, report, reports, total_errors,
                   total_warnings>>

\* ---- review-checklist main()
ReviewMain ==
    /\ tool = "review-checklist" /\ pc = "main"
    /\ IF ~argv.given
       THEN Exit([kind |-> "usage"], 1)
       ELSE pc' = "check" /\ UNCHANGED <<stdout, exit_code>>
    /\ UNCHANGED <<tool, argv, target, files, idx, report, reports, total_errors,
                   total_warnings>>

\* report = check_file(filepath), which ends the process itself when the
\* file is missing; read_text raising an OSError is not caught anywhere
ReviewCheck ==
    /\ tool = "review-checklist" /\ pc = "check"
    /\ IF ~target.exists
       THEN Exit([kind |-> "File not found"], 1) /\ UNCHANGED report
       ELSE IF ~target.readable
       THEN Crash /\ UNCHANGED report
       ELSE report' = check_file(target) /\ pc' = "report" /\ UNCHANGED <<stdout, exit_code>>
    /\ UNCHANGED <<tool, argv, target, files, idx, reports, total_errors, total_warnings>>

\* the output, then sys.exit(1 if warning_count > 0 else 0)
ReviewReport ==
    /\ tool = "review-checklist" /\ pc = "report"
    /\ LET warnings == CountIf(report.issues, LAMBDA i : i.severity = "warning")
       IN  Exit([kind |-> IF argv.json THEN "json" ELSE "text", file |-> report.file,
                 total_lines |-> report.total_lines, issues |-> report.issues,
                 summary |-> summary(report)],
                IF warnings > 0 THEN 1 ELSE 0)
    /\ UNCHANGED <<tool, argv, target, files, idx, report, reports, total_errors,
                   total_warnings>>

Next ==
    \/ GateMain \/ GateAnalyze \/ GateReport
    \/ DocMain \/ DocValidate \/ DocReport
    \/ ReviewMain \/ ReviewCheck \/ ReviewReport

Spec == Init /\ [][Next]_vars


(***************************************************************************)
(* Properties.  A run has "reported" when main printed its report, so the  *)
(* analysis ran on at least one file.                                      *)
(***************************************************************************)
GateReported == tool = "quality-gate" /\ pc = "done" /\ stdout.kind = "report"
DocReported ==
    tool = "doc-structure-validator" /\ pc = "done" /\ stdout.kind \in {"json", "text"}
ReviewReported ==
    tool = "review-checklist" /\ pc = "done" /\ stdout.kind \in {"json", "text"}

\* quality-gate ran on the one file the path names, and that file parsed
GateAnalyzedOne ==
    /\ GateReported /\ target.is_file
    /\ target.file.readable /\ ~target.file.syntax_error

\* the number of issues of one severity
NumOf(issues, severity) ==
    Cardinality({k \in 1..Len(issues) : issues[k].severity = severity})

\* the number of issues of one rule (field rule) or category (field category)
NumOfRule(issues, rule) == Cardinality({k \in 1..Len(issues) : issues[k].rule = rule})
NumOfCategory(issues, category) ==
    Cardinality({k \in 1..Len(issues) : issues[k].category = category})

\* the lines of the issues of one category, in the order of the list
LinesOfCategory(issues, category) ==
    LET sel == SelectSeq(issues, LAMBDA i : i.category = category)
    IN  [k \in 1..Len(sel) |-> sel[k].line]

\* ------------------------------------------------------------------ C1
\* C1: in quality-gate the status line of format_report depends on the
\* severities of report.issues only: FAILED when some issue is an error,
\* "PASSED (with warnings)" when none is an error and some is a warning,
\* "ALL CHECKS PASSED" when there is no issue; and Report.passed holds
\* exactly when no issue is an error.
C1_StatusBySeverity ==
    GateReported =>
        /\ stdout.text.status =
               (IF NumOf(report.issues, "error") > 0 THEN "FAILED"
                ELSE IF NumOf(report.issues, "warning") > 0 THEN "PASSED (with warnings)"
                ELSE "ALL CHECKS PASSED")
        /\ (stdout.text.status = "ALL CHECKS PASSED") <=> (report.issues = <<>>)
        /\ passed(report) <=> (NumOf(report.issues, "error") = 0)

\* a run of quality-gate whose issues are warnings only
C1_WarningsOnly ==
    /\ GateReported
    /\ NumOf(report.issues, "error") = 0
    /\ NumOf(report.issues, "warning") > 0
    /\ stdout.text.status = "PASSED (with warnings)"

\* ------------------------------------------------------------------ C2
\* some artifact of the batch has an issue of the given severity
SomeArtifactHas(severity) ==
    IF tool = "quality-gate" THEN NumOf(report.issues, severity) > 0
    ELSE \E k \in 1..Len(reports) : NumOf(reports[k].issues, severity) > 0

\* C2: for a batch of at least one artifact, the exit status of
\* doc-structure-validator and of quality-gate is non-zero exactly when some
\* artifact has an error issue, or, in doc-structure-validator with
\* --fail-on-warnings, when some artifact has a warning issue.
C2_ExitStatusIffError ==
    (tool \in {"quality-gate", "doc-structure-validator"} /\ pc = "done" /\ files # <<>>) =>
        ((exit_code # 0) <=>
            \/ SomeArtifactHas("error")
            \/ /\ tool = "doc-structure-validator" /\ argv.fail_on_warnings
               /\ SomeArtifactHas("warning"))

\* ------------------------------------------------------------------ C3
\* C3: review-checklist exits with status 0 whenever its report holds no
\* error issue, also when it holds warnings, and with status 1 only when an
\* error issue is present.
C3_ReviewExitZeroWithoutError ==
    ReviewReported =>
        /\ (NumOf(report.issues, "error") = 0 => exit_code = 0)
        /\ (exit_code = 1 => NumOf(report.issues, "error") > 0)

\* ------------------------------------------------------------------ C4
\* the run ended on a usage error: no argument, path not found, no input
\* files, or a directory without the recursive flag
UsageError ==
    /\ pc = "done"
    /\ stdout.kind \in {"usage", "No Python files found", "is a directory",
                        "No .md files found", "not found", "File not found"}

\* C4: in each of the three scripts a usage error ends the process with an
\* exit code other than 1, the code of a run that found rule failures.
C4_UsageErrorCodeDistinct == UsageError => exit_code # 1

\* ------------------------------------------------------------------ C5
\* max(0, 100 - 10e - 3w - i)
ScoreOf(e, w, i) == IF 100 - 10 * e - 3 * w - i > 0 THEN 100 - 10 * e - 3 * w - i ELSE 0

ScoreOfIssues(issues) ==
    ScoreOf(NumOf(issues, "error"), NumOf(issues, "warning"), NumOf(issues, "info"))

\* the exit status as a function of the error and warning totals and the flag
ExitOfCounts(errors, warnings, strict) ==
    IF errors > 0 \/ (strict /\ warnings > 0) THEN 1 ELSE 0

\* the sum of NumOf(reports[k].issues, severity) over the reports
TotalOf(severity) ==
    SeqSum([k \in 1..Len(reports) |-> NumOf(reports[k].issues, severity)])

\* C5: the score of every ValidationReport is max(0, 100 - 10*errors -
\* 3*warnings - info), lies in 0..100, is the same number in the text and in
\* the JSON rendering, and the exit status is determined by the error and
\* warning counts (and the flag) alone, whatever the scores.
C5_ScoreFormula ==
    DocReported =>
        /\ \A k \in 1..Len(reports) :
               /\ ScoreOfIssues(reports[k].issues) \in 0..100
               /\ format_report_text(reports[k]).score = ScoreOfIssues(reports[k].issues)
               /\ format_report_json(reports[k]).summary.score
                      = ScoreOfIssues(reports[k].issues)
               /\ IF argv.json
                  THEN stdout.docs[k].summary.score = ScoreOfIssues(reports[k].issues)
                  ELSE stdout.docs[k].score = ScoreOfIssues(reports[k].issues)
        /\ exit_code = ExitOfCounts(TotalOf("error"), TotalOf("warning"),
                                    argv.fail_on_warnings)

\* a report whose unclamped score would be negative, rendered as JSON
C5_ScoreAtFloor ==
    /\ DocReported /\ argv.json /\ Len(reports) = 1
    /\ 100 - 10 * NumOf(reports[1].issues, "error") - NumOf(reports[1].issues, "info") < 0
    /\ NumOf(reports[1].issues, "info") > 0
    /\ stdout.docs[1].summary.score = 0

\* ------------------------------------------------------------------ C6
\* the function definitions of a parsed file
FunctionNodesOf(f) == SelectSeq(walk(<<f.tree>>), IsFunction)

\* the function-length issues quality-gate reported for one definition
NumFunctionLength(f, node) ==
    Cardinality({k \in 1..Len(report.issues) :
                    /\ report.issues[k].category = "function-length"
                    /\ report.issues[k].file = f.path
                    /\ report.issues[k].line = node.lineno})

\* the long-function issues review-checklist reported at one line
NumLongFunctionAt(line) ==
    Cardinality({k \in 1..Len(report.issues) :
                    /\ report.issues[k].rule = "long-function"
                    /\ report.issues[k].line = line})

\* the definitions nodes of the file f got the function-length issues due
NodesWithinBoundary(f, nodes) ==
    \A n \in 1..Len(nodes) :
        NumFunctionLength(f, nodes[n])
            = IF nodes[n].end_lineno - nodes[n].lineno + 1 >= 51 THEN 1 ELSE 0

\* the spans fns of the target got the long-function issues due
SpansWithinBoundary(fns) ==
    /\ \A n \in 1..Len(fns) :
           NumLongFunctionAt(fns[n].start)
               = IF fns[n].end - fns[n].start + 1 >= 51 THEN 1 ELSE 0
    /\ NumOfRule(report.issues, "long-function")
           = Cardinality({n \in 1..Len(fns) : fns[n].end - fns[n].start + 1 >= 51})

RankOfGroup(group) ==
    CASE group = "stdlib" -> 0 [] group = "third-party" -> 1 [] group = "local" -> 2

\* the highest rank among imports[1 .. k-1], or -1 when k = 1
HighestRankBefore(imports, k) ==
    LET before == {RankOfGroup(imports[j].group) : j \in 1..(k - 1)}
    IN  IF before = {} THEN -1 ELSE CHOOSE m \in before : \A x \in before : x <= m

\* the lines of the records whose rank is below the highest rank before them
LinesBelowHighest(imports) ==
    LET below == SelectSeq([k \in 1..Len(imports) |-> k],
                           LAMBDA k : RankOfGroup(imports[k].group)
                                          < HighestRankBefore(imports, k))
    IN  [j \in 1..Len(below) |-> imports[below[j]].lineno]

\* C7: check_import_organization emits an imports issue for an import
\* record exactly when its rank is lower than the highest rank of any record
\* before it in the file, at that record's line.
C7_FlaggedIffBelowHighest ==
    GateAnalyzedOne =>
        LinesOfCategory(report.issues, "imports")
            = LinesBelowHighest(CollectImports(iter_child_nodes(target.file.tree)))

\* ------------------------------------------------------------------ C8
\* the ranks of the imports of a module body in file order, one per imported
\* name of "import a, b" and one per "from m import x"; a relative import is
\* local
RanksOfStatement(node) ==
    IF node.type = "Import"
    THEN [j \in 1..Len(node.names) |->
             IF Head(node.names[j]) \in STDLIB_TOP_LEVEL THEN 0 ELSE 1]
    ELSE IF node.type = "ImportFrom"
    THEN <<IF node.level > 0 THEN 2
           ELSE IF Head(node.module) \in STDLIB_TOP_LEVEL THEN 0 ELSE 1>>
    ELSE <<>>

DeclaredRanks(body) == Flatten([k \in 1..Len(body) |-> RanksOfStatement(body[k])])

NonDecreasing(ranks) ==
    \A i \in 1..Len(ranks) : \A j \in i..Len(ranks) : ranks[i] <= ranks[j]

Without(ranks, p) == SubSeq(ranks, 1, p - 1) \o SubSeq(ranks, p + 1, Len(ranks))

\* ranks is a non-decreasing sequence in which one third-party import was
\* moved to a place before a stdlib import
ThirdPartyMovedUp(ranks) ==
    \E p \in 1..Len(ranks) :
        /\ ranks[p] = 1
        /\ NonDecreasing(Without(ranks, p))
        /\ \E q \in (p + 1)..Len(ranks) : ranks[q] = 0

\* C8: for imports whose ranks are non-decreasing check_import_organization
\* emits no issue; when such a sequence has one third-party import moved to
\* before a stdlib import it emits exactly one.
C8_SortedNoneMovedOne ==
    GateAnalyzedOne =>
        /\ NonDecreasing(DeclaredRanks(target.file.tree.body))
               => NumOfCategory(report.issues, "imports") = 0
        /\ ThirdPartyMovedUp(DeclaredRanks(target.file.tree.body))
               => NumOfCategory(report.issues, "imports") = 1

\* a third-party import moved to the front of two stdlib imports: one issue
C8_MovedToFront ==
    /\ GateAnalyzedOne
    /\ DeclaredRanks(target.file.tree.body) = <<1, 0, 0>>
    /\ NumOfCategory(report.issues, "imports") = 1

\* ------------------------------------------------------------------ C9
\* the import records of a module body when every relative import counts
RecordsOfStatement(node) ==
    IF node.type = "ImportFrom" /\ node.level > 0
    THEN <<[lineno |-> node.lineno, group |-> "local", name |-> node.module]>>
    ELSE ImportRecordsOf(node)

DeclaredImports(body) == Flatten([k \in 1..Len(body) |-> RecordsOfStatement(body[k])])

\* C9: every relative import (level > 0), also "from . import x" with no
\* module name, is recorded with group local and takes part in the ordering
\* scan; a non-relative import is stdlib exactly when its top-level name is
\* in STDLIB_TOP_LEVEL and third-party otherwise.
C9_RelativeImportsAreLocal ==
    GateAnalyzedOne =>
        LET body == target.file.tree.body
            imports == CollectImports(iter_child_nodes(target.file.tree))
        IN  /\ \A k \in 1..Len(body) :
                   (body[k].type = "ImportFrom" /\ body[k].level > 0) =>
                       \E j \in 1..Len(imports) :
                           imports[j].lineno = body[k].lineno /\ imports[j].group = "local"
            /\ LinesOfCategory(report.issues, "imports")
                   = LinesOfCategory(
                         ImportScan(DeclaredImports(body), -1, target.file.path,
                                    NewReport).issues,
                         "imports")
            /\ \A k \in 1..Len(body) :
                   (body[k].type = "ImportFrom" /\ body[k].level = 0) =>
                       \E j \in 1..Len(imports) :
                           /\ imports[j].lineno = body[k].lineno
                           /\ imports[j].group =
                                  IF Head(body[k].module) \in STDLIB_TOP_LEVEL
                                  THEN "stdlib" ELSE "third-party"

\* ------------------------------------------------------------------ C10
\* the indices of the headings that skip a level after their predecessor
SkippingHeadings(headings) ==
    SelectSeq([k \in 1..Len(headings) |-> k],
              LAMBDA k : k > 1 /\ headings[k].level > headings[k - 1].level + 1)

HierarchyIssues(issues) == SelectSeq(issues, LAMBDA i : i.category = "heading-hierarchy")

\* C10: validate_heading_hierarchy emits one error issue of category
\* heading-hierarchy at the line of heading h exactly when h has a
\* predecessor p and level(h) > level(p) + 1, and the message names
\* level(p) + 1 as the expected level; the first heading and any decrease
\* of the level produce no issue.
C10_HierarchySkips ==
    DocReported =>
        \A k \in 1..Len(reports) :
            files[k].exists =>
                LET headings == parse_document(files[k].lines).headings
                    skips == SkippingHeadings(headings)
                    found == HierarchyIssues(reports[k].issues)
                IN  /\ Len(found) = Len(skips)
                    /\ \A j \in 1..Len(skips) :
                           /\ found[j].line = headings[skips[j]].line
                           /\ found[j].severity = "error"
                           /\ found[j].message.from = headings[skips[j] - 1].level
                           /\ found[j].message.to = headings[skips[j]].level
                           /\ found[j].message.expected = headings[skips[j] - 1].level + 1

\* a document with the headings H1, H3: one issue, at the H3 line, naming H2
C10_H1ThenH3 ==
    /\ DocReported /\ Len(reports) = 1 /\ files[1].exists
    /\ files[1].lines = <<HeadingLine(1), HeadingLine(3)>>
    /\ Len(HierarchyIssues(reports[1].issues)) = 1
    /\ HierarchyIssues(reports[1].issues)[1].line = 2
    /\ HierarchyIssues(reports[1].issues)[1].severity = "error"
    /\ HierarchyIssues(reports[1].issues)[1].message.expected = 2

\* ------------------------------------------------------------------ C11
\* the numbers of the lines whose stripped text starts with three backquotes
FenceLinesOf(lines) ==
    SelectSeq([k \in 1..Len(lines) |-> k],
              LAMBDA k : StartsWith(Strip(lines[k]), <<BT, BT, BT>>))

\* the error issues of category code-block
UnclosedIssues(issues) ==
    SelectSeq(issues, LAMBDA i : i.category = "code-block" /\ i.severity = "error")

\* C11: the validator emits exactly one error issue of category code-block,
\* with the unclosed message, exactly when the number of fence lines is odd,
\* at the line of the last fence line (the one that opened the unclosed
\* block); when the number is even it emits none.
C11_UnclosedFence ==
    DocReported =>
        \A k \in 1..Len(reports) :
            files[k].exists =>
                LET fences == FenceLinesOf(files[k].lines)
                    found == UnclosedIssues(reports[k].issues)
                IN  IF Len(fences) % 2 = 1
                    THEN /\ Len(found) = 1
                         /\ found[1].line = fences[Len(fences)]
                         /\ found[1].message = <<"Unclosed code block">>
                    ELSE found = <<>>

\* a document of three lines whose only fence is at line 2: one issue, at
\* line 2
C11_OpenedAtLineTwo ==
    /\ DocReported /\ Len(reports) = 1 /\ files[1].exists
    /\ files[1].lines = <<TextLine, TaggedFenceLine, TextLine>>
    /\ Len(UnclosedIssues(reports[1].issues)) = 1
    /\ UnclosedIssues(reports[1].issues)[1].line = 2

\* ------------------------------------------------------------------ C12
\* the broken-link issues at one line that name one target
BrokenLinkIssuesAt(issues, line, slug) ==
    SelectSeq(issues, LAMBDA i : /\ i.category = "broken-link"
                                 /\ i.line = line
                                 /\ i.message[2] = slug)

\* C12: for every heading text T that parse_document recognises in a
\* document, a link of that document whose href is "#" followed by
\* slugify_heading(T) is not reported as broken-link.
C12_SlugRoundTrip ==
    DocReported =>
        \A k \in 1..Len(reports) :
            files[k].exists =>
                LET doc == parse_document(files[k].lines)
                IN  \A h \in 1..Len(doc.headings) : \A l \in 1..Len(doc.links) :
                        doc.links[l].href = <<"#">> \o slugify_heading(doc.headings[h].text)
                            => BrokenLinkIssuesAt(reports[k].issues, doc.links[l].line,
                                                  slugify_heading(doc.headings[h].text)) = <<>>

\* the heading "A b" and the link to #a-b: the link is parsed and not reported
C12_LinkToSlug ==
    /\ DocReported /\ Len(reports) = 1 /\ files[1].exists
    /\ files[1].lines = <<<<"#", " ", "A", " ", "b">>, LinkLine(<<"a", "-", "b">>)>>
    /\ parse_document(files[1].lines).headings[1].text = <<"A", " ", "b">>
    /\ parse_document(files[1].lines).links[1].href = <<"#", "a", "-", "b">>
    /\ NumOfCategory(reports[1].issues, "broken-link") = 0

\* ------------------------------------------------------------------ C13
\* the lexical state of a JavaScript line after its characters k+1 .. n,
\* starting in state st: "code", "comment" (after //), or the quote
\* character of the string or template literal that is open
RECURSIVE LexFrom(_, _, _, _)
LexFrom(line, k, n, st) ==
    IF k >= n THEN st
    ELSE LET ch == line[k + 1]
         IN  IF st = "comment" THEN st
             ELSE IF st = "code"
             THEN IF ch \in {"\"", "'", BT} THEN LexFrom(line, k + 1, n, ch)
                  ELSE IF ch = "/" /\ k + 2 <= Len(line) /\ line[k + 2] = "/" THEN "comment"
                  ELSE LexFrom(line, k + 1, n, "code")
             ELSE IF ch = "\\" THEN LexFrom(line, k + 2, n, st)
             ELSE IF ch = st THEN LexFrom(line, k + 1, n, "code")
             ELSE LexFrom(line, k + 1, n, st)

\* the state in which the character at offset pos (from 0) is read
LexAt(line, pos) == LexFrom(line, 0, pos, "code")

InLiteral(line, pos) == LexAt(line, pos) \in {"\"", "'", BT}

\* the offsets where a console.<method>( token starts
ConsoleTokens(line) ==
    {FindIter(CONSOLE_LOG_PATTERN, line)[k].start :
        k \in 1..Len(FindIter(CONSOLE_LOG_PATTERN, line))}

\* "//" stands inside a string literal somewhere before offset pos
SlashesInLiteralBefore(line, pos) ==
    \E p \in 0..(pos - 2) :
        /\ line[p + 1] = "/" /\ line[p + 2] = "/"
        /\ InLiteral(line, p) /\ InLiteral(line, p + 1)

ConsoleIssueAt(issues, i) ==
    \E k \in 1..Len(issues) : issues[k].rule = "console-log" /\ issues[k].line = i

\* C13: a // inside a string literal does not hide the code after the
\* literal (a console call in code after it is reported on that line), and a
\* line whose console.<method>( tokens all stand inside string literals gets
\* no console-log issue.
C13_CommentMasking ==
    ReviewReported =>
        \A i \in 1..Len(target.lines) :
            LET line == target.lines[i]
                tokens == ConsoleTokens(line)
            IN  /\ (\E t \in tokens : LexAt(line, t) = "code"
                                      /\ SlashesInLiteralBefore(line, t))
                       => ConsoleIssueAt(report.issues, i)
                /\ (tokens # {} /\ \A t \in tokens : InLiteral(line, t))
                       => ~ConsoleIssueAt(report.issues, i)

\* ------------------------------------------------------------------ C14
\* the pass of the loop of quality-gate that is about to analyse a file that
\* can be read and whose source has a syntax error
AtSyntaxError ==
    /\ tool = "quality-gate" /\ pc = "loop" /\ idx <= Len(files)
    /\ files[idx].readable /\ files[idx].syntax_error

\* the issues of a report that name one file
IssuesOfFile(issues, path) == SelectSeq(issues, LAMBDA i : i.file = path)

\* the pass adds one issue, a parse error for the file at the line of the
\* syntax error (0 when there is none), and leaves the three counters alone
ParseIssueAdded ==
    /\ Len(report'.issues) = Len(report.issues) + 1
    /\ SubSeq(report'.issues, 1, Len(report.issues)) = report.issues
    /\ LET new == report'.issues[Len(report'.issues)]
       IN  /\ new.file = files[idx].path
           /\ new.category = "parse" /\ new.severity = "error"
           /\ new.line = IF files[idx].exc_lineno = NoLineno THEN 0 ELSE files[idx].exc_lineno
    /\ report'.files_checked = report.files_checked
    /\ report'.functions_checked = report.functions_checked
    /\ report'.classes_checked = report.classes_checked

\* a run of quality-gate that reported on a batch holding a file with a
\* syntax error
ReportedSyntaxError ==
    /\ GateReported
    /\ \E k \in 1..Len(files) : files[k].readable /\ files[k].syntax_error

\* C14: analysing a file with a syntax error adds exactly one issue for
\* that file, of category parse and severity error, at the line of the syntax
\* error (0 when unknown), and leaves files_checked, functions_checked and
\* classes_checked unchanged; the verdict of the run is then FAILED.
C14_SyntaxErrorIsOneParseIssue ==
    /\ [][AtSyntaxError => ParseIssueAdded]_vars
    /\ [](ReportedSyntaxError =>
             /\ stdout.text.status = "FAILED" /\ exit_code = 1
             /\ \A k \in 1..Len(files) :
                    (files[k].readable /\ files[k].syntax_error) =>
                        Len(IssuesOfFile(report.issues, files[k].path)) = 1)

\* a directory of a clean file and a file with a syntax error on line 3: one
\* file checked, the one parse issue at line 3, FAILED
C14_CleanThenBroken ==
    /\ GateReported /\ Len(files) = 2
    /\ files[1] = CleanSource
    /\ files[2].syntax_error /\ files[2].exc_lineno = 3
    /\ Len(report.issues) = 1
    /\ report.issues[1].file = 2 /\ report.issues[1].line = 3
    /\ report.issues[1].category = "parse" /\ report.issues[1].severity = "error"
    /\ report.files_checked = 1
    /\ stdout.text.status = "FAILED"

\* ------------------------------------------------------------------ C15
\* the structural model of a file that did not parse: no docstring, no node
EmptyModel == Module(FALSE, <<>>)

\* what the five rules report for a file whose structural model is empty
IssuesOnEmptyModel(f) ==
    analyze_file([f EXCEPT !.syntax_error = FALSE, !.tree = EmptyModel], NewReport).issues

\* C15: after a parse failure the rules still run on the file against an
\* empty structural model, so the file gets, in addition to its parse issue,
\* the findings of the rules that need no node: the module-level docstring
\* check of quality-gate reports the missing module docstring.
C15_RulesRunAfterParseFailure ==
    ReportedSyntaxError =>
        \A k \in 1..Len(files) :
            (files[k].readable /\ files[k].syntax_error) =>
                /\ Len(IssuesOfFile(report.issues, files[k].path))
                       = 1 + Len(IssuesOnEmptyModel(files[k]))
                /\ \E n \in 1..Len(report.issues) :
                       /\ report.issues[n].file = files[k].path
                       /\ report.issues[n].category = "docstrings"

\* ------------------------------------------------------------------ C16
RECURSIVE SumOf(_)
SumOf(ns) == IF ns = <<>> THEN 0 ELSE Head(ns) + SumOf(Tail(ns))

\* quality-gate analysing one file of the batch on its own
AloneInGate(f) == analyze_file(f, NewReport)

\* a batch run of quality-gate or doc-structure-validator that has ended
BatchEnded ==
    /\ tool \in {"quality-gate", "doc-structure-validator"}
    /\ pc = "done" /\ files # <<>>

\* C16: in a batch every artifact is analysed and reported whatever the
\* other artifacts are (unreadable, unparsable, with errors); the findings
\* and counters of one artifact are those it gets when analysed on its own;
\* the batch totals are the sums of the per-artifact counts.
C16_BatchIndependence ==
    BatchEnded =>
        IF tool = "doc-structure-validator"
        THEN /\ stdout.kind \in {"json", "text"}
             /\ Len(reports) = Len(files) /\ Len(stdout.docs) = Len(files)
             /\ \A k \in 1..Len(files) : reports[k] = validate_document(files[k])
             /\ total_errors = SumOf([k \in 1..Len(files) |->
                                         NumOf(validate_document(files[k]).issues, "error")])
             /\ total_warnings = SumOf([k \in 1..Len(files) |->
                                           NumOf(validate_document(files[k]).issues, "warning")])
        ELSE /\ stdout.kind = "report"
             /\ \A k \in 1..Len(files) :
                    IssuesOfFile(report.issues, files[k].path) = AloneInGate(files[k]).issues
             /\ report.files_checked
                    = SumOf([k \in 1..Len(files) |-> AloneInGate(files[k]).files_checked])
             /\ report.functions_checked
                    = SumOf([k \in 1..Len(files) |-> AloneInGate(files[k]).functions_checked])
             /\ report.classes_checked
                    = SumOf([k \in 1..Len(files) |-> AloneInGate(files[k]).classes_checked])
             /\ stdout.text.total
                    = IF report.issues = <<>> THEN <<>>
                      ELSE <<SumOf([k \in 1..Len(files) |->
                                       NumOf(AloneInGate(files[k]).issues, "error")]),
                             SumOf([k \in 1..Len(files) |->
                                       NumOf(AloneInGate(files[k]).issues, "warning")])>>

\* ------------------------------------------------------------------ C17
\* the parameters of a definition: positional ones, then keyword-only ones
ParametersOf(node) == node.args \o node.kwonlyargs

\* the parameters, other than self and cls, that carry no annotation
Unannotated(node) ==
    SelectSeq(ParametersOf(node),
              LAMBDA a : a.arg # N_self /\ a.arg # N_cls /\ ~a.annotation)

\* the issues of one category at the declaration line of a definition whose
\* message is of one kind and names the definition
IssuesAbout(issues, node, category, text) ==
    SelectSeq(issues, LAMBDA i : /\ i.category = category /\ i.line = node.lineno
                                 /\ i.message[1] = text
                                 /\ i.message[Len(i.message)] = node.name)

\* the type-hints errors for the parameter called arg of a definition
ParameterIssues(issues, node, arg) ==
    SelectSeq(IssuesAbout(issues, node, "type-hints", "Parameter missing type hint"),
              LAMBDA i : i.message[2] = arg /\ i.severity = "error")

\* what C17 says of one definition of a file, given the issues of the file
CheckedAsC17(issues, node) ==
    LET hints == SelectSeq(issues, LAMBDA i : i.category = "type-hints" /\ i.line = node.lineno)
        params == IssuesAbout(issues, node, "type-hints", "Parameter missing type hint")
        returns == IssuesAbout(issues, node, "type-hints",
                               "Function missing return type annotation")
        docs == IssuesAbout(issues, node, "docstrings", "Function missing docstring")
    IN  IF StartsWith(node.name, <<"_">>) /\ node.name # N_init
        THEN hints = <<>> /\ docs = <<>>
        ELSE /\ \A k \in 1..Len(Unannotated(node)) :
                    Len(ParameterIssues(issues, node, Unannotated(node)[k].arg)) = 1
             /\ Len(params) = Len(Unannotated(node))
             /\ Len(docs) = (IF node.docstring THEN 0 ELSE 1)
             /\ Len(returns) = (IF node.name # N_init /\ ~node.returns THEN 1 ELSE 0)

\* C17: a definition whose name starts with an underscore and is not
\* __init__ gets no type-hints and no docstrings issue; __init__ is checked
\* for parameter annotations and its docstring but not for a return
\* annotation; every other definition is checked, and each parameter other
\* than self / cls that lacks an annotation gives one type-hints error at the
\* line of the definition.
C17_PrivateExemptAndParametersChecked ==
    GateAnalyzedOne =>
        \A n \in 1..Len(FunctionNodesOf(target.file)) :
            CheckedAsC17(report.issues, FunctionNodesOf(target.file)[n])

\* ------------------------------------------------------------------ C18
\* a short public function with a one-letter lower-case name whose
\* parameters are all annotated and which has no return annotation
ShortUnreturned(node) ==
    /\ Len(node.name) = 1 /\ node.name[1] \in Lower
    /\ node.end_lineno - node.lineno + 1 <= MAX_FUNCTION_LINES
    /\ \A k \in 1..Len(ParametersOf(node)) : ParametersOf(node)[k].annotation
    /\ ~node.returns

\* the issues of one category at the declaration line of a definition
IssuesAtLine(issues, node, category) ==
    SelectSeq(issues, LAMBDA i : i.category = category /\ i.line = node.lineno)

\* C18: for a short function, not private and not __init__, with a
\* single-letter lower-case name, all parameters annotated and no return
\* annotation, quality-gate emits exactly one type-hints issue, an error at
\* the declaration line, no naming issue and no function-length issue, and
\* the verdict is FAILED.
C18_OnlyTheReturnAnnotation ==
    GateAnalyzedOne =>
        \A n \in 1..Len(FunctionNodesOf(target.file)) :
            LET node == FunctionNodesOf(target.file)[n]
            IN  ShortUnreturned(node) =>
                    /\ NumOfCategory(report.issues, "type-hints") = 1
                    /\ Len(IssuesAtLine(report.issues, node, "type-hints")) = 1
                    /\ IssuesAtLine(report.issues, node, "type-hints")[1].severity = "error"
                    /\ IssuesAtLine(report.issues, node, "naming") = <<>>
                    /\ IssuesAtLine(report.issues, node, "function-length") = <<>>
                    /\ stdout.text.status = "FAILED" /\ exit_code = 1

\* def f(x: ...) of three lines with a docstring and no return annotation:
\* the report holds the one type-hints error at line 2 and nothing else
C18_ThreeLineFunction ==
    /\ GateAnalyzedOne
    /\ Len(FunctionNodesOf(target.file)) = 1
    /\ LET node == FunctionNodesOf(target.file)[1]
       IN  /\ ShortUnreturned(node) /\ node.name = N_f
           /\ Len(node.args) = 1 /\ node.end_lineno - node.lineno + 1 = 3
    /\ Len(report.issues) = 1
    /\ report.issues[1].category = "type-hints" /\ report.issues[1].severity = "error"
    /\ report.issues[1].line = 2
    /\ stdout.text.status = "FAILED"

\* ------------------------------------------------------------------ C19
\* the report r and the output out of doc-structure-validator for a file
\* are those of validate_document on that file alone
DocAlone(alone, r, out) ==
    /\ r = alone
    /\ out = IF argv.json THEN format_report_json(alone) ELSE format_report_text(alone)

\* the report and the output of review-checklist are those of check_file
ReviewAlone(alone) ==
    /\ report = alone
    /\ stdout.issues = alone.issues
    /\ stdout.summary = summary(alone)
    /\ stdout.total_lines = Len(target.lines)

\* the issues of quality-gate for the k-th file are those of analyze_file on
\* a fresh report, which is the whole report when the file is the only one
GateAlone(alone, k) ==
    /\ IssuesOfFile(report.issues, files[k].path) = alone.issues
    /\ Len(files) = 1 => report = alone /\ stdout.text = format_report(alone)

BagOfList(xs) ==
    [x \in {xs[k] : k \in 1..Len(xs)} |-> Cardinality({k \in 1..Len(xs) : xs[k] = x})]

\* the k-th validate_* call of validate_document on a parsed document, given
\* the issues list as the calls before it left it
DocRule(k, doc, lines, issues) ==
    CASE k = 1 -> validate_heading_hierarchy(doc.headings, issues)
      [] k = 2 -> validate_empty_sections(doc.headings, lines, issues).issues
      [] k = 3 -> validate_internal_links(doc.headings, doc.links, lines, issues)
      [] k = 4 -> validate_code_blocks(doc.code_blocks, issues)
      [] k = 5 -> validate_images(doc.images, issues)
      [] k = 6 -> validate_markers(lines, issues)

\* the issues list after the calls order[k], order[k+1], ...
RECURSIVE DocRulesFrom(_, _, _, _, _)
DocRulesFrom(order, k, doc, lines, issues) ==
    IF k > Len(order) THEN issues
    ELSE DocRulesFrom(order, k + 1, doc, lines, DocRule(order[k], doc, lines, issues))

\* the k-th check_* call of analyze_file
GateRule(k, f, r) ==
    CASE k = 1 -> check_type_hints(f.tree, f.path, r)
      [] k = 2 -> check_docstrings(f.tree, f.path, r)
      [] k = 3 -> check_import_organization(f.tree, f.path, r)
      [] k = 4 -> check_function_length(f.tree, f.path, r)
      [] k = 5 -> check_naming(f.tree, f.path, r)

RECURSIVE GateRulesFrom(_, _, _, _)
GateRulesFrom(order, k, f, r) ==
    IF k > Len(order) THEN r
    ELSE GateRulesFrom(order, k + 1, f, GateRule(order[k], f, r))

\* the orders in which n rules can run
Orders(n) == Permutations(1..n)

\* the number of categories among the issues
NumCategories(issues) == Cardinality({issues[n].category : n \in 1..Len(issues)})

\* every order of the six validate_* calls gives the bag of issues bag
AnyDocOrderGives(doc, lines, bag) ==
    \A order \in Orders(6) : BagOfList(DocRulesFrom(order, 1, doc, lines, <<>>)) = bag

\* handed the issues list of the whole run, every validate_* call appends
\* to it what it reports on an empty list, and validate_empty_sections
\* returns the sections of the run
DocRulesOnlyAppend(doc, lines, r) ==
    /\ \A k \in 1..6 : DocRule(k, doc, lines, r.issues)
                            = r.issues \o DocRule(k, doc, lines, <<>>)
    /\ validate_empty_sections(doc.headings, lines, r.issues).sections = r.sections

\* every order of the five check_* calls gives the issues and counters of r
AnyGateOrderGives(f, r) ==
    \A order \in Orders(5) :
        LET got == GateRulesFrom(order, 1, f, [NewReport EXCEPT !.files_checked = 1])
        IN  /\ BagOfList(got.issues) = BagOfList(r.issues)
            /\ got.files_checked = r.files_checked
            /\ got.functions_checked = r.functions_checked
            /\ got.classes_checked = r.classes_checked

\* handed the report of the whole run, every check_* call adds to it the
\* issues and the counts it adds to a fresh report
GateRulesOnlyAdd(f, r) ==
    \A k \in 1..5 :
        LET got == GateRule(k, f, r)
            own == GateRule(k, f, NewReport)
        IN  /\ got.issues = r.issues \o own.issues
            /\ got.files_checked = r.files_checked
            /\ got.functions_checked = r.functions_checked + own.functions_checked
            /\ got.classes_checked = r.classes_checked + own.classes_checked

\* a run of doc-structure-validator without options on one document, of six
\* lines at most, on which at least three rules reported
ThreeRulesReported ==
    /\ DocReported /\ Len(files) = 1 /\ files[1].exists
    /\ ~argv.json /\ ~argv.fail_on_warnings
    /\ Len(files[1].lines) <= 6
    /\ NumCategories(reports[1].issues) >= 3

\* a run of quality-gate on one file that parsed, on which at least three
\* rules reported
ThreeChecksReported == GateAnalyzedOne /\ NumCategories(report.issues) >= 3

\* C20: for one artifact the rules can run in any order: every permutation
\* of the five check_* calls of analyze_file, and of the six validate_* calls
\* of validate_document, gives the bag of issues and the counters of the run
\* (tried on the files, and on the documents of up to six lines, on which
\* three rules or more report); and no rule reads what another wrote:
\* handed the issues and counters of the whole run (for documents, of a run
\* without options), each rule adds to them what it reports from a fresh
\* start.
C20_RuleOrderIrrelevant ==
    /\ ThreeChecksReported => AnyGateOrderGives(target.file, report)
    /\ GateAnalyzedOne => GateRulesOnlyAdd(target.file, report)
    /\ ThreeRulesReported =>
           AnyDocOrderGives(parse_document(files[1].lines), files[1].lines,
                            BagOfList(reports[1].issues))
    /\ (DocReported /\ ~argv.json /\ ~argv.fail_on_warnings) =>
           \A k \in 1..Len(files) :
               files[k].exists =>
                   DocRulesOnlyAppend(parse_document(files[k].lines), files[k].lines,
                                      reports[k])

\* a document with a broken link, a marker and an untagged code block: three
\* rules report, and running validate_markers first gives the issues in
\* another order than the run
C20_ThreeRulesOtherOrder ==
    /\ ThreeRulesReported
    /\ NumOfCategory(reports[1].issues, "broken-link") = 1
    /\ NumOfCategory(reports[1].issues, "code-block") = 1
    /\ DocRulesFrom(<<6, 5, 4, 3, 2, 1>>, 1, parse_document(files[1].lines),
                    files[1].lines, <<>>) # reports[1].issues
    /\ BagOfList(DocRulesFrom(<<6, 5, 4, 3, 2, 1>>, 1, parse_document(files[1].lines),
                              files[1].lines, <<>>)) = BagOfList(reports[1].issues)

\* ------------------------------------------------------------------ C21
\* the lexical state of JavaScript text in which the character at offset n
\* of a line is read, when the character at offset k is read in state st:
\* "code", "comment" (after //), "block" (between /* and */), or the quote
\* character of the string or template literal that is open
RECURSIVE ScanFrom(_, _, _, _)
ScanFrom(line, k, n, st) ==
    IF k >= n \/ st = "comment" THEN st
    ELSE LET ch == line[k + 1]
             next == IF k + 2 <= Len(line) THEN line[k + 2] ELSE ""
         IN  IF st = "block"
             THEN IF ch = "*" /\ next = "/"
                  THEN (IF k + 2 > n THEN "block" ELSE ScanFrom(line, k + 2, n, "code"))
                  ELSE ScanFrom(line, k + 1, n, "block")
             ELSE IF st = "code"
             THEN IF ch \in {"\"", "'", BT} THEN ScanFrom(line, k + 1, n, ch)
                  ELSE IF ch = "/" /\ next = "/" THEN "comment"
                  ELSE IF ch = "/" /\ next = "*" THEN ScanFrom(line, k + 2, n, "block")
                  ELSE ScanFrom(line, k + 1, n, "code")
             ELSE IF ch = "\\" THEN ScanFrom(line, k + 2, n, st)
             ELSE IF ch = st THEN ScanFrom(line, k + 1, n, "code")
             ELSE ScanFrom(line, k + 1, n, st)

\* the state after the end of a line read from state st: only a block
\* comment stays open over the end of a line
EndOfLine(line, st) ==
    IF ScanFrom(line, 0, Len(line), st) = "block" THEN "block" ELSE "code"

\* the state after the lines lo .. hi, for either state they can be read
\* from, by halves
Then(first, second) ==
    [code |-> IF first.code = "code" THEN second.code ELSE second.block,
     block |-> IF first.block = "code" THEN second.code ELSE second.block]

RECURSIVE StatesAfter(_, _, _)
StatesAfter(lines, lo, hi) ==
    IF lo > hi THEN [code |-> "code", block |-> "block"]
    ELSE IF lo = hi
    THEN [code |-> EndOfLine(lines[lo], "code"), block |-> EndOfLine(lines[lo], "block")]
    ELSE Then(StatesAfter(lines, lo, (lo + hi) \div 2),
              StatesAfter(lines, (lo + hi) \div 2 + 1, hi))

\* the state in which the character at offset pos of line i is read
ScanAt(lines, i, pos) == ScanFrom(lines[i], 0, pos, StatesAfter(lines, 1, i - 1).code)

InComment(lines, i, pos) == ScanAt(lines, i, pos) \in {"comment", "block"}

\* the offsets where the matches ms of a pattern start
StartsOf(ms) == {ms[k].start : k \in 1..Len(ms)}

\* the number of marker tokens of line i that stand in a comment
MarkersInComment(lines, i) ==
    Cardinality({t \in StartsOf(FindIter(TODO_PATTERN, lines[i])) : InComment(lines, i, t)})

\* the number of issues of one rule at one line
NumOfRuleAt(issues, rule, i) ==
    Cardinality({k \in 1..Len(issues) : issues[k].rule = rule /\ issues[k].line = i})

\* C21: review-checklist reports one todo-fixme issue, of severity info, for
\* every marker token (TODO, FIXME, HACK, XXX) that stands in a comment on
\* the line, be it a // comment or a /* ... */ comment over several lines,
\* and none for a marker token outside every comment.
C21_MarkersInCommentsOnly ==
    ReviewReported =>
        /\ \A i \in 1..Len(target.lines) :
               NumOfRuleAt(report.issues, "todo-fixme", i)
                   = MarkersInComment(target.lines, i)
        /\ \A k \in 1..Len(report.issues) :
               report.issues[k].rule = "todo-fixme" => report.issues[k].severity = "info"

\* ------------------------------------------------------------------ C22
\* the number of characters c on the lines i .. j
CharsOnLines(lines, i, j, c) ==
    Cardinality(UNION {{<<k, p>> : p \in {q \in 1..Len(lines[k]) : lines[k][q] = c}} :
                          k \in i..j})

\* the brace depth after the first n characters of a line, and after the
\* lines i .. j, counted from 0
PrefixDepth(line, n) ==
    Cardinality({q \in 1..n : line[q] = "{"}) - Cardinality({q \in 1..n : line[q] = "}"})
DepthAfterLines(lines, i, j) ==
    CharsOnLines(lines, i, j, "{") - CharsOnLines(lines, i, j, "}")

\* the position (from 1) of the opening brace of the function whose
\* signature starts at offset m on the line: the first brace after m
OpeningBrace(line, m) ==
    CHOOSE p \in (m + 1)..Len(line) :
        line[p] = "{" /\ \A q \in (m + 1)..(p - 1) : line[q] # "{"

\* on line j the depth counted from the start of line i is back at the value
\* it had before the brace at position p of line i
DepthReturnsOn(lines, i, p, j) ==
    \E q \in (IF j = i THEN p + 1 ELSE 1)..Len(lines[j]) :
        DepthAfterLines(lines, i, j - 1) + PrefixDepth(lines[j], q)
            <= PrefixDepth(lines[i], p - 1)

\* the line i holds a function signature, found at offset ms[1].start, and
\* an opening brace after it, and the function is closed on line j or before
ClosedFunctionAt(lines, i, ms, j) ==
    /\ ms # <<>>
    /\ \E p \in (ms[1].start + 1)..Len(lines[i]) : lines[i][p] = "{"
    /\ \E e \in i..j : DepthReturnsOn(lines, i, OpeningBrace(lines[i], ms[1].start), e)

\* the spans fns hold the function of line i with the end the depth gives
SpanAsDepthGives(lines, i, ms, fns) ==
    ClosedFunctionAt(lines, i, ms, Len(lines)) =>
        \E n \in 1..Len(fns) :
            /\ fns[n].start = i
            /\ ClosedFunctionAt(lines, i, ms, fns[n].end)
            /\ ~ClosedFunctionAt(lines, i, ms, fns[n].end - 1)

SpansAsDepthGives(lines, fns) ==
    \A i \in 1..Len(lines) :
        SpanAsDepthGives(lines, i, FindIter(FUNCTION_PATTERN, lines[i]), fns)

\* C22: find_function_spans records, for every line i with a function
\* signature and an opening brace, a span that starts at i and ends at the
\* first line j >= i on which the brace depth counted from the start of line
\* i is back at the value it had before the opening brace; a function that
\* opens and closes on one line gets the span (i, i).
C22_SpanEndsWhereDepthReturns ==
    ReviewReported => SpansAsDepthGives(target.lines, find_function_spans(target.lines))

\* ------------------------------------------------------------------ C23
\* the braces of line i that stand in code, as +1 and -1 in their order
CodeBraces(lines, i) ==
    LET at == SelectSeq([q \in 1..Len(lines[i]) |-> q],
                        LAMBDA q : /\ lines[i][q] \in {"{", "}"}
                                   /\ ScanAt(lines, i, q - 1) = "code")
    IN  [k \in 1..Len(at) |-> IF lines[i][at[k]] = "{" THEN 1 ELSE -1]

\* the depth after the lines 1 .. j (counted over the braces in code)
RunningDepth(lines, j) == SeqSum(Flatten([i \in 1..j |-> CodeBraces(lines, i)]))

\* the greatest depth reached on line i, the depth before it being d
DepthReached(lines, i, d) ==
    LET bs == CodeBraces(lines, i)
        sums == {SeqSum(SubSeq(bs, 1, k)) : k \in 0..Len(bs)}
    IN  d + (CHOOSE m \in sums : \A x \in sums : x <= m)

\* C23: review-checklist reports deep-nesting (a warning) at a line exactly
\* when the brace depth reached on that line, counted over all the lines
\* before it and leaving out the braces in strings and comments, is more than
\* 3; blocks nested more than 3 deep with one opening brace per line are
\* reported.
C23_RunningNestingDepth ==
    ReviewReported =>
        \A i \in 1..Len(target.lines) :
            NumOfRuleAt(report.issues, "deep-nesting", i)
                = IF DepthReached(target.lines, i, RunningDepth(target.lines, i - 1))
                         > NestingThreshold
                  THEN 1 ELSE 0

\* ------------------------------------------------------------------ C24
\* a console.<method>( token of line i stands in code: outside string
\* literals, // comments and /* ... */ comments
ConsoleCallInCode(lines, i) ==
    \E t \in StartsOf(FindIter(CONSOLE_LOG_PATTERN, lines[i])) : ScanAt(lines, i, t) = "code"

\* C24: review-checklist reports console-log at a line exactly when the line
\* holds a console.log/debug/info/warn/error/trace call outside string
\* literals, // comments and /* ... */ comment regions, once per line at
\* most; code before the /* that opens a comment or after the */ that closes
\* one is analysed, and a /* inside a string literal opens no comment.
C24_ConsoleOutsideIgnoredRegions ==
    ReviewReported =>
        \A i \in 1..Len(target.lines) :
            NumOfRuleAt(report.issues, "console-log", i)
                = IF ConsoleCallInCode(target.lines, i) THEN 1 ELSE 0

\* ------------------------------------------------------------------ C25
\* the issues of the size thresholds: file-length and long-function in
\* review-checklist, function-length in quality-gate
IsSizeIssue(issue) ==
    IF tool = "quality-gate" THEN issue.category = "function-length"
    ELSE issue.rule \in {"file-length", "long-function"}

OnlySizeIssues(issues) ==
    issues # <<>> /\ \A k \in 1..Len(issues) : IsSizeIssue(issues[k])

SizeIssuesAreWarnings(issues) ==
    \A k \in 1..Len(issues) : IsSizeIssue(issues[k]) => issues[k].severity = "warning"

\* C25: every size-threshold issue is a warning, so a run on an artifact with
\* size-threshold issues only does not end with the verdict FAILED: the
\* status line of quality-gate is not FAILED, and the exit status, which is 1
\* for a FAILED verdict, is 0.
C25_SizeIssuesNeverFail ==
    /\ GateReported =>
           /\ SizeIssuesAreWarnings(report.issues)
           /\ OnlySizeIssues(report.issues) =>
                  stdout.text.status # "FAILED" /\ exit_code = 0
    /\ ReviewReported =>
           /\ SizeIssuesAreWarnings(report.issues)
           /\ OnlySizeIssues(report.issues) => exit_code = 0

\* ------------------------------------------------------------------ C26
\* the sort key of the text listing: severity rank, then line
KeyOf(issue) == <<severity_order(issue.severity), issue.line>>

KeyBefore(a, b) == a[1] < b[1] \/ (a[1] = b[1] /\ a[2] <= b[2])

\* the members of a list of issues that have the key key, in their order
WithKey(issues, key) == SelectSeq(issues, LAMBDA i : KeyOf(i) = key)

\* listing holds the issues of issues, each as often, in the order of the
\* keys, those of one key in the order they have in issues
StablySorted(listing, issues) ==
    /\ BagOfList(listing) = BagOfList(issues)
    /\ \A a \in 1..Len(listing) : \A b \in a..Len(listing) :
           KeyBefore(KeyOf(listing[a]), KeyOf(listing[b]))
    /\ \A k \in 1..Len(issues) :
           WithKey(listing, KeyOf(issues[k])) = WithKey(issues, KeyOf(issues[k]))

\* the step of main that renders the reports
Rendering == pc = "loop" /\ pc' = "done" /\ tool = "doc-structure-validator"

\* C26: the issue listing of format_report_text is a permutation of
\* report.issues ordered by severity rank (error, warning, info), then by
\* ascending line, issues of equal severity and line staying in their
\* insertion order; the JSON rendering lists the issues in insertion order;
\* and rendering leaves report.issues as it was.
C26_ListingOrder ==
    /\ [](DocReported =>
             \A k \in 1..Len(reports) :
                 IF argv.json THEN stdout.docs[k].issues = reports[k].issues
                 ELSE StablySorted(stdout.docs[k].issues, reports[k].issues))
    /\ [][Rendering => reports' = reports]_vars

\* a text report in which the listing is not in insertion order and two
\* different issues have the same severity and line
C26_TiedIssuesListed ==
    /\ DocReported /\ ~argv.json
    /\ \E k \in 1..Len(reports) :
           /\ stdout.docs[k].issues # reports[k].issues
           /\ \E a, b \in 1..Len(reports[k].issues) :
                  /\ a < b
                  /\ KeyOf(reports[k].issues[a]) = KeyOf(reports[k].issues[b])
                  /\ reports[k].issues[a] # reports[k].issues[b]

\* ------------------------------------------------------------------ C27
\* line i of a document is a fence line; it lies inside a code fence when
\* the number of fence lines before it is odd
FenceAt(lines, i) == IsFence(Strip(lines[i]))
InsideFence(lines, i) ==
    ~FenceAt(lines, i) /\ Cardinality({j \in 1..(i - 1) : FenceAt(lines, j)}) % 2 = 1

\* the words of the lines strictly between the lines a and b that are
\* neither fence lines nor inside a code fence
WordsBetween(lines, a, b) ==
    SeqSum([d \in 1..(b - a - 1) |->
               IF FenceAt(lines, a + d) \/ InsideFence(lines, a + d) THEN 0
               ELSE count_words(lines[a + d])])

\* the line of the heading after headings[n], or the line after the last
NextHeadingLine(headings, n, lines) ==
    IF n < Len(headings) THEN headings[n + 1].line ELSE Len(lines) + 1

\* the sections and empty-section issues of the report r are those of the
\* headings of the document
SectionsPerHeading(headings, lines, r) ==
    /\ Len(r.sections) = Len(headings)
    /\ \A n \in 1..Len(headings) :
           /\ r.sections[n].line = headings[n].line
           /\ r.sections[n].heading = headings[n].text
           /\ r.sections[n].level = headings[n].level
           /\ r.sections[n].word_count
                  = WordsBetween(lines, headings[n].line,
                                 NextHeadingLine(headings, n, lines))
           /\ Cardinality({k \in 1..Len(r.issues) :
                              /\ r.issues[k].category = "empty-section"
                              /\ r.issues[k].line = headings[n].line})
                  = IF r.sections[n].word_count = 0 THEN 1 ELSE 0
    /\ \A k \in 1..Len(r.issues) :
           r.issues[k].category = "empty-section" =>
               /\ r.issues[k].severity = "warning"
               /\ \E n \in 1..Len(headings) : headings[n].line = r.issues[k].line

\* the step of main in which validate_document is applied to files[idx], a
\* file that exists, and its report becomes reports[idx]
Validated ==
    /\ tool = "doc-structure-validator" /\ pc = "loop" /\ idx' = idx + 1
    /\ files[idx].exists

\* C27: validate_empty_sections returns one SectionInfo per heading, in
\* document order, whose word_count is the number of words on the lines
\* strictly between the heading and the next heading (or the end), leaving
\* out fence lines and the lines inside code fences; it reports one
\* empty-section warning at the heading's line exactly when that count is 0
\* (in every step that validates a document).
C27_SectionWordCounts ==
    [][Validated =>
           SectionsPerHeading(parse_document(files[idx].lines).headings,
                              files[idx].lines, reports'[idx])]_vars

\* a section whose only content is a closed fenced code block with text in
\* it is reported as empty, and the section after it, with a word, is not
C27_FencedSectionIsEmpty ==
    /\ DocReported /\ Len(files) = 1 /\ files[1].exists
    /\ files[1].lines = <<HeadingLine(1), TaggedFenceLine, TextLine, FenceLine,
                          HeadingLine(2), TextLine>>
    /\ reports[1].sections[1].word_count = 0
    /\ reports[1].sections[2].word_count = 1
    /\ LinesOfCategory(reports[1].issues, "empty-section") = <<1>>

\* ------------------------------------------------------------------ C28
\* every issue of the list has a line among the first n lines
LinesWithin(issues, n) == \A k \in 1..Len(issues) : issues[k].line \in 1..n

\* the issues at line 0 are about the file as a whole: not found (category
\* file), cannot read or syntax error (category parse)
NoLineMeansFileLevel(issues) ==
    \A k \in 1..Len(issues) : issues[k].line = 0 => issues[k].category \in {"file", "parse"}

\* C28: every issue that validate_document or check_file gives for a file
\* that was read has a line from 1 to the number of lines of the input, and
\* line 0 is used for file-level issues only (file not found, cannot read,
\* syntax error without a line).
C28_LinesInRange ==
    /\ DocReported =>
           \A k \in 1..Len(files) :
               IF files[k].exists THEN LinesWithin(reports[k].issues, Len(files[k].lines))
               ELSE \A n \in 1..Len(reports[k].issues) : reports[k].issues[n].line = 0
    /\ ReviewReported => LinesWithin(report.issues, Len(target.lines))
    /\ DocReported => \A k \in 1..Len(reports) : NoLineMeansFileLevel(reports[k].issues)
    /\ GateReported => NoLineMeansFileLevel(report.issues)

\* a batch in which a file that is not found has its issue at line 0 and
\* another file has an issue at its last line
C28_LastLineAndNoLine ==
    /\ DocReported
    /\ \E k \in 1..Len(files) :
           ~files[k].exists /\ reports[k].issues # <<>> /\ reports[k].issues[1].line = 0
    /\ \E k \in 1..Len(files) :
           /\ files[k].exists /\ Len(files[k].lines) > 1
           /\ \E n \in 1..Len(reports[k].issues) :
                  reports[k].issues[n].line = Len(files[k].lines)

\* ------------------------------------------------------------------ C29
\* line i is prose: no fence line and not inside a code fence
Prose(lines, i) == ~FenceAt(lines, i) /\ ~InsideFence(lines, i)

\* the members of 1..n that satisfy P, in ascending order
Where(n, P(_)) == SelectSeq([i \in 1..n |-> i], P)

\* parse_document took the lines of the fences for code and the others for
\* prose: what it recorded lies on prose lines, and the heading, links and
\* images of every prose line are recorded
ParseSeesFences(lines, doc) ==
    /\ \A n \in 1..Len(doc.headings) : Prose(lines, doc.headings[n].line)
    /\ \A n \in 1..Len(doc.links) : Prose(lines, doc.links[n].line)
    /\ \A n \in 1..Len(doc.images) : Prose(lines, doc.images[n].line)
    /\ \A i \in 1..Len(lines) :
           Prose(lines, i) =>
               /\ HeadingMatch(Strip(lines[i])).ok
                      => \E n \in 1..Len(doc.headings) : doc.headings[n].line = i
               /\ LinksOfLine(lines[i], i) # <<>>
                      => \E n \in 1..Len(doc.links) : doc.links[n].line = i
    /\ \A i \in 1..Len(lines) :
           FenceAt(lines, i) =>
               \E n \in 1..Len(doc.code_blocks) :
                   i \in {doc.code_blocks[n].start, doc.code_blocks[n].end}

\* the scan of validate_empty_sections for the section of headings[n] kept
\* the prose lines of the section that are not blank
SectionSeesFences(lines, headings, n) ==
    LET first == headings[n].line + 1
        last == NextHeadingLine(headings, n, lines) - 1
        kept == Where(Len(lines), LAMBDA i : /\ i \in first..last /\ Prose(lines, i)
                                             /\ Strip(lines[i]) # <<>>)
    IN  SectionContent(lines, headings[n].line, last, FALSE, <<>>)
            = [k \in 1..Len(kept) |-> Strip(lines[kept[k]])]

\* validate_markers looked for markers on the prose lines
MarkersSeeFences(lines) ==
    validate_markers(lines, <<>>)
        = Flatten([i \in 1..Len(lines) |->
                      IF Prose(lines, i) THEN MarkersOfLine(lines[i], i) ELSE <<>>])

\* the word-count loop of validate_document kept the prose lines
WordsSeeFences(lines) ==
    LET kept == Where(Len(lines), LAMBDA i : Prose(lines, i))
    IN  WordLines(lines, 1, FALSE) = [k \in 1..Len(kept) |-> lines[kept[k]]]

FourScansAgree(lines, doc) ==
    /\ ParseSeesFences(lines, doc)
    /\ \A n \in 1..Len(doc.headings) : SectionSeesFences(lines, doc.headings, n)
    /\ MarkersSeeFences(lines)
    /\ WordsSeeFences(lines)

\* C29: the four scans of doc-structure-validator that track the code-fence
\* state (parse_document, validate_empty_sections, validate_markers and the
\* word-count loop of validate_document) agree, for every document and every
\* line, on whether the line is inside a code fence: each treats as prose
\* exactly the lines that are no fence lines and have an even number of fence
\* lines before them; the scan of a section, which starts outside a fence at
\* each heading, never starts inside one.
C29_FenceScansAgree ==
    [][Validated => FourScansAgree(files[idx].lines, parse_document(files[idx].lines))]_vars

\* a document with a marker and a link on a line inside a fence that an
\* indented fence line opened: neither is reported, and no word is counted
C29_ProseAndCodeAlike ==
    /\ DocReported /\ Len(files) = 1 /\ files[1].exists
    /\ \E i \in 1..Len(files[1].lines) :
           /\ InsideFence(files[1].lines, i)
           /\ files[1].lines[i] = MarkedLinkLine
           /\ \E j \in 1..(i - 1) : files[1].lines[j] = TaggedFenceLine
    /\ NumOfCategory(reports[1].issues, "marker") = 0
    /\ NumOfCategory(reports[1].issues, "broken-link") = 0
    /\ reports[1].total_words = 0

\* ------------------------------------------------------------------ C30
\* the lines start .. end of the code blocks
BlockLines(code_blocks) ==
    UNION {code_blocks[n].start..code_blocks[n].end : n \in 1..Len(code_blocks)}

\* the code blocks of a parsed document of n lines are well formed
BlocksWellFormed(doc, n) ==
    /\ \A k \in 1..Len(doc.code_blocks) :
           /\ 1 <= doc.code_blocks[k].start
           /\ doc.code_blocks[k].start <= doc.code_blocks[k].end
           /\ doc.code_blocks[k].end <= n
           /\ k > 1 => doc.code_blocks[k - 1].end < doc.code_blocks[k].start
           /\ doc.code_blocks[k].unclosed => k = Len(doc.code_blocks)
    /\ \A k \in 1..Len(doc.headings) : doc.headings[k].line \notin BlockLines(doc.code_blocks)
    /\ \A k \in 1..Len(doc.images) : doc.images[k].line \notin BlockLines(doc.code_blocks)
    /\ \A k \in 1..Len(doc.links) : doc.links[k].line \notin BlockLines(doc.code_blocks)

\* C30: after parse_document has scanned a document, every recorded code
\* block has 1 <= start <= end <= number of lines, the blocks are in
\* increasing line order and each starts after the end of the one before, at
\* most one block is marked unclosed and it is the last, and no recorded
\* heading, image or link has a line inside the start .. end of a block.
C30_CodeBlocksWellFormed ==
    [][Validated => BlocksWellFormed(parse_document(files[idx].lines),
                                     Len(files[idx].lines))]_vars

\* a validated document with a heading, a closed block, and an unclosed
\* block whose fence is followed by a heading line: two blocks and one
\* heading are recorded
C30_ClosedThenUnclosed ==
    /\ DocReported /\ Len(files) = 1 /\ files[1].exists
    /\ files[1].lines = <<HeadingLine(1), TaggedFenceLine, TextLine, FenceLine,
                          FenceLine, HeadingLine(2)>>
    /\ reports[1].total_code_blocks = 2
    /\ reports[1].total_headings = 1
    /\ \E k \in 1..Len(reports[1].issues) :
           /\ reports[1].issues[k].category = "code-block"
           /\ reports[1].issues[k].severity = "error"
           /\ reports[1].issues[k].line = 5
====
